---------------------------- MODULE Spec2Model ----------------------------
(***************************************************************************)
(* A model of backend/src/cache/intelligent_cache.py: the key derivation   *)
(* (_make_key) and the three cache tiers of IntelligentCache with their    *)
(* optional Redis backing store; of the query classifiers of               *)
(* router/intelligent_router.py and api/app.py; of agent selection        *)
(* (find_best_agent_for_task, find_agent_for_task, /execute-task); of the *)
(* tool recommendation of mcp/manager.py; of the learning checkpoints and *)
(* query_claude of the router; and of the conversation and tool-chain     *)
(* endpoints of api/app.py.                                                *)
(*                                                                         *)
(* Strings are sequences of tokens (one token per character, or one token  *)
(* for a whole word where the characters inside never matter).  A Python   *)
(* dict is the sequence of its items in insertion order, keys distinct.    *)
(***************************************************************************)
EXTENDS Integers, Sequences, FiniteSets, TLC

VARIABLES
    workload,                \* the tier(s) this run's callers use, and with which texts
    hist,                    \* per tier, the resident keys by insertion and by last use
    in1, in2,                \* KeySpec: the two (query, context) arguments
    out1, out2,              \* KeySpec: the keys _make_key returned for them
    response_cache,          \* self.response_cache          (TTLCache)
    embedding_cache,         \* self.embedding_cache         (LRUCache)
    agent_selection_cache,   \* self.agent_selection_cache   (TTLCache)
    redis_client,            \* self.redis_client: "None" or "client"
    probe,                   \* what the constructor's from_url/ping did
    server,                  \* the Redis server: its keys and whether it answers
    last,                    \* the last call made on the instance and its outcome
    callers,                 \* SpecConcurrent: where each concurrent caller is in its call
    putlog,                  \* SpecConcurrent: the (key, value) pairs put so far
    classify_in,             \* ClassifySpec: the text given to the classifiers
    classify_out,            \* ClassifySpec: the route each classifier returned
    select_in,               \* SelectSpec: the request, the agent repository, what fails
    select_out,              \* SelectSpec: what each agent-selection call returned
    tools_in,                \* ToolSpec: the registry, the tech stack and the requirements
    tools_out,               \* ToolSpec: what recommend_tools_for_project returned
    total_tasks_completed,   \* LearnSpec: agent_repository.total_tasks_completed, by agent id
    execution_history,       \* LearnSpec: the number of agent_execution_history rows, by agent id
    checkpoints,             \* LearnSpec: the rows of agent_learning_checkpoints, in insertion order
    claude_in,               \* ClaudeSpec: the arguments of query_claude as the caller gave them
    conversation_history,    \* ClaudeSpec: the caller's conversation_history list as it is now
    claude_call,             \* ClaudeSpec: what query_claude sent and returned
    conversations,           \* ChatSpec: _conversations, the messages of each stored session
    chat,                    \* ChatSpec: the sessions created so far, the messages acknowledged, the last response
    tool_chains,             \* ChainSpec: _tool_chains, the status record of each chain execution
    chain_run                \* ChainSpec: the request being handled by execute_tool_chain and where it is

keyVars == <<in1, in2, out1, out2>>
cacheVars == <<workload, hist, response_cache, embedding_cache, agent_selection_cache,
               redis_client, probe, server, last>>
concVars == <<callers, putlog>>
classVars == <<classify_in, classify_out>>
selectVars == <<select_in, select_out>>
toolVars == <<tools_in, tools_out>>
learnVars == <<total_tasks_completed, execution_history, checkpoints>>
claudeVars == <<claude_in, conversation_history, claude_call>>
chatVars == <<conversations, chat>>
chainVars == <<tool_chains, chain_run>>
otherVars == <<concVars, classVars, selectVars, toolVars, learnVars, claudeVars, chatVars, chainVars>>
\* What a step of one of these components leaves alone among the others.
concOthers == <<classVars, selectVars, toolVars, learnVars, claudeVars, chatVars, chainVars>>
classOthers == <<concVars, selectVars, toolVars, learnVars, claudeVars, chatVars, chainVars>>
selectOthers == <<concVars, classVars, toolVars, learnVars, claudeVars, chatVars, chainVars>>
toolOthers == <<concVars, classVars, selectVars, learnVars, claudeVars, chatVars, chainVars>>
learnOthers == <<concVars, classVars, selectVars, toolVars, claudeVars, chatVars, chainVars>>
claudeOthers == <<concVars, classVars, selectVars, toolVars, learnVars, chatVars, chainVars>>
chatOthers == <<concVars, classVars, selectVars, toolVars, learnVars, claudeVars, chainVars>>
chainOthers == <<concVars, classVars, selectVars, toolVars, learnVars, claudeVars, chatVars>>
\* query_claude records the execution it made: what it leaves alone.
claudeLearnOthers == <<concVars, classVars, selectVars, toolVars, chatVars, chainVars>>
vars == <<workload, hist, in1, in2, out1, out2, response_cache, embedding_cache,
          agent_selection_cache, redis_client, probe, server, last, otherVars>>

(***************************************************************************)
(* Key derivation: _make_key, json.dumps(context, sort_keys=True), md5.    *)
(***************************************************************************)

\* Optional[Dict]: None, or a dict given by its items in insertion order.
NoneCtx == [present |-> FALSE, items |-> <<>>]
Dict(items) == [present |-> TRUE, items |-> items]

\* Python's order on the dict keys used here (str comparison by code point).
KeyRank(k) ==
    CASE k = "a" -> 1
      [] k = "b" -> 2
      [] k = "project_id" -> 3

\* json.dumps of a scalar: a number prints bare, a string in quotes,
\* None as null, True as true.
DumpValue(v) ==
    CASE v.t = "num"  -> <<v.x>>
      [] v.t = "str"  -> <<"\"", v.x, "\"">>
      [] v.t = "null" -> <<"null">>
      [] v.t = "bool" -> <<v.x>>

Num(x) == [t |-> "num", x |-> x]
Str(x) == [t |-> "str", x |-> x]
Null == [t |-> "null", x |-> "null"]

RECURSIVE InsertSorted(_, _)
InsertSorted(item, sorted) ==
    IF sorted = <<>> THEN <<item>>
    ELSE IF KeyRank(item.k) <= KeyRank(Head(sorted).k)
         THEN <<item>> \o sorted
         ELSE <<Head(sorted)>> \o InsertSorted(item, Tail(sorted))

RECURSIVE SortItemsByKey(_)
SortItemsByKey(items) ==
    IF items = <<>> THEN <<>>
    ELSE InsertSorted(Head(items), SortItemsByKey(Tail(items)))

RECURSIVE DumpItems(_)
DumpItems(items) ==
    IF items = <<>> THEN <<>>
    ELSE <<"\"", Head(items).k, "\"", ":", " ">> \o DumpValue(Head(items).v)
         \o (IF Tail(items) = <<>> THEN <<>> ELSE <<",", " ">> \o DumpItems(Tail(items)))

\* A mutant of JsonDumps: sort_keys left out, the items print in insertion order.
JsonDumpsUnsorted(items) == <<"{">> \o DumpItems(items) \o <<"}">>

\* json.dumps(context, sort_keys=True)
JsonDumps(items) == <<"{">> \o DumpItems(SortItemsByKey(items)) \o <<"}">>

\* hashlib.md5(s.encode()).hexdigest(), taken as collision-free: the digest
\* determines the string digested.
Md5(s) == <<"md5">> \o s

\* `if context:` is false for None and for the empty dict.
Truthy(ctx) == ctx.present /\ ctx.items # <<>>

\* IntelligentCache._make_key
MakeKey(query, ctx) ==
    Md5(IF Truthy(ctx) THEN query \o JsonDumps(ctx.items) ELSE query)

(***************************************************************************)
(* cachetools.TTLCache and cachetools.LRUCache, as IntelligentCache uses   *)
(* them.  A cache is the sequence of its entries from the least recently   *)
(* used to the most recently used; a TTLCache entry carries the time it    *)
(* expires at.  An expired entry stays in the sequence until the next      *)
(* __setitem__ removes it, and is invisible to every lookup meanwhile.     *)
(*                                                                         *)
(* Time is kept relative to the present: the clock reads Clock in every    *)
(* state, and a tick of time moves every stored expiry one tick closer     *)
(* (an expiry that has been reached stays reached).                        *)
(***************************************************************************)

\* What the caches' timer (time.monotonic) and the server's clock read.
Clock == 0

\* One tick of time passing over the entries of a TTL cache.
RECURSIVE Aged(_)
Aged(c) ==
    IF c = <<>> THEN <<>>
    ELSE <<[Head(c) EXCEPT !.expires = IF @ > Clock THEN @ - 1 ELSE Clock]>>
         \o Aged(Tail(c))

\* TTLCache.expire(time): drop every entry with expires <= time.
TtlExpire(c, time) == SelectSeq(c, LAMBDA e : time < e.expires)

\* TTLCache.__contains__: the key has a link and it has not expired.
TtlContains(c, key, time) ==
    \E i \in 1..Len(c) : c[i].key = key /\ time < c[i].expires

\* Cache.__getitem__: the value stored under a key that is present.
ValueOf(c, key) == c[CHOOSE i \in 1..Len(c) : c[i].key = key].value

HasKey(c, key) == \E i \in 1..Len(c) : c[i].key = key

\* OrderedDict.move_to_end(key)
MoveToEnd(c, key) ==
    SelectSeq(c, LAMBDA e : e.key # key) \o SelectSeq(c, LAMBDA e : e.key = key)

\* A mutant of TtlGetItem: a read leaves the order of use alone.
TtlGetItemNoTouch(c, key) == c

\* TTLCache.__getitem__ of a present key: __getlink moves it to the end.
TtlGetItem(c, key) == MoveToEnd(c, key)

\* Cache.__setitem__'s `while self.currsize + size > maxsize: self.popitem()`
\* with popitem taking the first (least recently used) entry.
RECURSIVE PopUntilFits(_, _)
PopUntilFits(c, maxsize) ==
    IF Len(c) + 1 > maxsize /\ c # <<>> THEN PopUntilFits(Tail(c), maxsize) ELSE c

\* A mutant of TtlSetItem: a key that is present keeps its old value.
TtlSetItemKeepOld(c, key, value, time, ttl, maxsize) ==
    LET live == TtlExpire(c, time)
        room == IF HasKey(live, key) THEN live ELSE PopUntilFits(live, maxsize)
    IN  SelectSeq(room, LAMBDA e : e.key # key)
            \o <<[key |-> key,
                  value |-> IF HasKey(live, key) THEN ValueOf(live, key) ELSE value,
                  expires |-> time + ttl]>>

\* A mutant of TtlSetItem: no eviction, the cache grows past maxsize.
TtlSetItemNoEvict(c, key, value, time, ttl, maxsize) ==
    SelectSeq(TtlExpire(c, time), LAMBDA e : e.key # key)
        \o <<[key |-> key, value |-> value, expires |-> time + ttl]>>

\* TTLCache.__setitem__: expire, evict if the key is new and the cache full,
\* store, and (re)link the key at the end with expires = time + ttl.
TtlSetItem(c, key, value, time, ttl, maxsize) ==
    LET live == TtlExpire(c, time)
        room == IF HasKey(live, key) THEN live ELSE PopUntilFits(live, maxsize)
    IN  SelectSeq(room, LAMBDA e : e.key # key)
            \o <<[key |-> key, value |-> value, expires |-> time + ttl]>>

\* TTLCache.__len__: expire, then count.
TtlLen(c, time) == Len(TtlExpire(c, time))

\* A mutant of LruGetItem: the entry read is taken out of the cache.
LruGetItemPop(c, key) == SelectSeq(c, LAMBDA e : e.key # key)

\* LRUCache.__getitem__ of a present key: the key becomes most recently used.
LruGetItem(c, key) == MoveToEnd(c, key)

\* LRUCache.__setitem__: evict the least recently used entry if the key is
\* new and the cache full, store, mark the key most recently used.
LruSetItem(c, key, value, maxsize) ==
    LET room == IF HasKey(c, key) THEN c ELSE PopUntilFits(c, maxsize)
    IN  SelectSeq(room, LAMBDA e : e.key # key) \o <<[key |-> key, value |-> value]>>

(***************************************************************************)
(* Sizes.  Time is counted in ticks of 3600 s, so the TTLs are the         *)
(* program's; the capacities are the program's scaled down.                *)
(***************************************************************************)

ResponseMaxsize == 2        \* TTLCache(maxsize=1000, ...)
EmbeddingMaxsize == 2       \* LRUCache(maxsize=10000)
AgentMaxsize == 2           \* TTLCache(maxsize=500, ...)
ResponseTtl == 1            \* ttl=3600
AgentTtl == 2               \* ttl=7200
DefaultTtl == 1             \* cache_response(..., ttl: int = 3600)

Tiers == {"response", "embedding", "agent"}

\* The texts callers pass as query, text and task.
Texts == {<<"q1">>, <<"q2">>, <<"q3">>}

\* The values callers put: a plain JSON dict, and a dict holding a set
\* (which json.dumps rejects).
ResponseValues == {"v1", "vSet"}
Embeddings == {"e1", "e2"}
Agents == {"a1", "a2"}
TtlArgs == {0, DefaultTtl}

\* What a run's callers use: one tier with every text, or all tiers with one.
Workloads ==
    {[t \in Tiers |-> IF t = only THEN Texts ELSE {}] : only \in Tiers}
        \cup {[t \in Tiers |-> {<<"q1">>}]}

(***************************************************************************)
(* json.dumps / json.loads of a cached response, and the Redis server.     *)
(***************************************************************************)

\* json.dumps(response) raises TypeError on a value JSON cannot write.
Serializable(value) == value # "vSet"

\* json.dumps(response): the JSON text of the value.
JsonDumpsResponse(value) == <<"json", value>>

\* json.loads(cached) raises on bytes that are not JSON.
Parseable(bytes) == bytes[1] = "json"

\* json.loads(cached)
JsonLoads(bytes) == bytes[2]

\* f"response:{cache_key}"
ResponseStoreKey(cache_key) == <<"response:">> \o cache_key

\* redis_client.get(name): raises when the server cannot be reached,
\* returns None (here <<>>) for a key that is absent or has expired.
RedisGet(srv, name, time) ==
    IF ~srv.up THEN [raised |-> TRUE, bytes |-> <<>>]
    ELSE IF \E e \in srv.data : e.name = name /\ time < e.expires
         THEN [raised |-> FALSE,
               bytes |-> (CHOOSE e \in srv.data : e.name = name).bytes]
         ELSE [raised |-> FALSE, bytes |-> <<>>]

\* redis_client.setex(name, time, value): raises when the server cannot be
\* reached and when it rejects the expire time (it must be positive).
RedisSetex(srv, name, ttl, bytes, time) ==
    IF ~srv.up \/ ttl <= 0 THEN [raised |-> TRUE, server |-> srv]
    ELSE [raised |-> FALSE,
          server |-> [srv EXCEPT !.data =
                         {e \in srv.data : e.name # name}
                             \cup {[name |-> name, bytes |-> bytes,
                                    expires |-> time + ttl]}]]

(***************************************************************************)
(* IntelligentCache.  Each method is an operator giving the call's result: *)
(* the tier and the server after it, what it returned, how many calls it   *)
(* made to the backing store, and whether an exception reached the caller. *)
(***************************************************************************)

\* IntelligentCache.__init__: the client is kept unless from_url or ping
\* raised; what ping returned is not looked at.
Construct(ping) ==
    IF ping \in {"ok", "false"} THEN "client" ELSE "None"

\* A mutant of Swallow: the exception is not caught.
SwallowNothing(r, cache) == r

\* `except Exception: pass`: the method carries on after the try block,
\* with the tier as it was when the exception was raised.
Swallow(r, cache) ==
    IF r.raised
    THEN [r EXCEPT !.raised = FALSE, !.swallowed = TRUE, !.ret = "None", !.cache = cache]
    ELSE r

Result(cache, srv, ret, calls, raised) ==
    [cache |-> cache, server |-> srv, ret |-> ret, calls |-> calls, raised |-> raised,
     swallowed |-> FALSE]

\* A mutant of GetCachedResponse: a backing-store hit is returned without
\* being copied into the in-process tier.
GetCachedResponseNoPopulate(cache, client, srv, time, query, ctx) ==
    LET cache_key == MakeKey(query, ctx)
        got == RedisGet(srv, ResponseStoreKey(cache_key), time)
    IN  IF TtlContains(cache, cache_key, time)
        THEN Result(TtlGetItem(cache, cache_key), srv, ValueOf(cache, cache_key), 0, FALSE)
        ELSE IF client # "None" /\ ~got.raised /\ got.bytes # <<>> /\ Parseable(got.bytes)
             THEN Result(cache, srv, JsonLoads(got.bytes), 1, FALSE)
             ELSE Result(cache, srv, "None", IF client # "None" THEN 1 ELSE 0, FALSE)

\* IntelligentCache.get_cached_response
GetCachedResponse(cache, client, srv, time, query, ctx) ==
    LET cache_key == MakeKey(query, ctx)
        got == RedisGet(srv, ResponseStoreKey(cache_key), time)
    IN  IF TtlContains(cache, cache_key, time)
        THEN Result(TtlGetItem(cache, cache_key), srv, ValueOf(cache, cache_key), 0, FALSE)
        ELSE IF client # "None"
             THEN Swallow(
                    IF got.raised THEN Result(cache, srv, "None", 1, TRUE)
                    ELSE IF got.bytes = <<>> THEN Result(cache, srv, "None", 1, FALSE)
                    ELSE IF ~Parseable(got.bytes) THEN Result(cache, srv, "None", 1, TRUE)
                    ELSE Result(TtlSetItem(cache, cache_key, JsonLoads(got.bytes), time,
                                           ResponseTtl, ResponseMaxsize),
                                srv, JsonLoads(got.bytes), 1, FALSE),
                    cache)
             ELSE Result(cache, srv, "None", 0, FALSE)

\* IntelligentCache.cache_response: the in-process entry always gets the
\* tier's own TTL; the ttl argument goes to the backing store only.
CacheResponse(cache, client, srv, time, query, response, ctx, ttl) ==
    LET cache_key == MakeKey(query, ctx)
        stored == TtlSetItem(cache, cache_key, response, time, ResponseTtl, ResponseMaxsize)
        set == RedisSetex(srv, ResponseStoreKey(cache_key), ttl,
                          JsonDumpsResponse(response), time)
    IN  IF client # "None"
        THEN Swallow(
               IF ~Serializable(response) THEN Result(stored, srv, "None", 0, TRUE)
               ELSE Result(stored, set.server, "None", 1, set.raised),
               stored)
        ELSE Result(stored, srv, "None", 0, FALSE)

\* IntelligentCache.get_cached_embedding: LRUCache.get, no backing store.
GetCachedEmbedding(cache, srv, text) ==
    LET cache_key == Md5(text)
    IN  IF HasKey(cache, cache_key)
        THEN Result(LruGetItem(cache, cache_key), srv, ValueOf(cache, cache_key), 0, FALSE)
        ELSE Result(cache, srv, "None", 0, FALSE)

\* IntelligentCache.cache_embedding
CacheEmbedding(cache, srv, text, embedding) ==
    Result(LruSetItem(cache, Md5(text), embedding, EmbeddingMaxsize), srv, "None", 0, FALSE)

\* {'project_id': project_id}
ProjectCtx(project_id) == Dict(<<[k |-> "project_id", v |-> project_id]>>)

\* IntelligentCache.get_cached_agent_selection: TTLCache.get, no backing store.
GetCachedAgentSelection(cache, srv, time, task, project_id) ==
    LET cache_key == MakeKey(task, ProjectCtx(project_id))
    IN  IF TtlContains(cache, cache_key, time)
        THEN Result(TtlGetItem(cache, cache_key), srv, ValueOf(cache, cache_key), 0, FALSE)
        ELSE Result(cache, srv, "None", 0, FALSE)

\* IntelligentCache.cache_agent_selection
CacheAgentSelection(cache, srv, time, task, agent, project_id) ==
    Result(TtlSetItem(cache, MakeKey(task, ProjectCtx(project_id)), agent, time,
                      AgentTtl, AgentMaxsize),
           srv, "None", 0, FALSE)

\* IntelligentCache.get_stats
GetStats(response, embedding, agent, client, time) ==
    [response_cache |-> [size |-> TtlLen(response, time), maxsize |-> ResponseMaxsize],
     embedding_cache |-> [size |-> Len(embedding), maxsize |-> EmbeddingMaxsize],
     agent_cache |-> [size |-> TtlLen(agent, time), maxsize |-> AgentMaxsize],
     redis_connected |-> client # "None"]

(***************************************************************************)
(* The record of the resident keys of each tier, kept beside the caches:   *)
(* born lists them from the earliest inserted to the latest, used from the *)
(* least recently put or read to the most recently; streak is the set of   *)
(* keys put into the tier since an entry of it could last have expired.    *)
(***************************************************************************)

KeysOf(c) == {c[i].key : i \in 1..Len(c)}

\* The keys a lookup finds in a tier at a time.
ResidentKeys(tier, cache, time) ==
    IF tier = "embedding" THEN KeysOf(cache) ELSE KeysOf(TtlExpire(cache, time))

RestrictSeq(seq, S) == SelectSeq(seq, LAMBDA k : k \in S)

\* The record after a call with cache key `key` on `tier` took its resident
\* keys from `before` to `after`.
HistAfter(op, tier, key, before, after) ==
    [born |-> [hist.born EXCEPT ![tier] =
                  IF key \in after /\ key \notin before
                  THEN RestrictSeq(@, after \ {key}) \o <<key>>
                  ELSE RestrictSeq(@, after)],
     used |-> [hist.used EXCEPT ![tier] =
                  IF key \in after
                  THEN RestrictSeq(@, after \ {key}) \o <<key>>
                  ELSE RestrictSeq(@, after)],
     streak |-> [hist.streak EXCEPT ![tier] = IF op = "put" THEN @ \cup {key} ELSE @]]

TierCache(tier) ==
    CASE tier = "response" -> response_cache
      [] tier = "embedding" -> embedding_cache
      [] tier = "agent" -> agent_selection_cache

NoPrev == [op |-> "none", val |-> "None", ttl |-> 0, swallowed |-> FALSE]

\* What a call other than get_stats leaves in the place of the statistics.
NoStats == [response_cache |-> [size |-> 0, maxsize |-> 0],
            embedding_cache |-> [size |-> 0, maxsize |-> 0],
            agent_cache |-> [size |-> 0, maxsize |-> 0],
            redis_connected |-> FALSE]

\* What the call just before did, when it was a call on the same tier and key
\* and this one is a get.
Prev(op, tier, key) ==
    IF op = "get" /\ last.op \in {"put", "get"} /\ last.tier = tier /\ last.key = key
    THEN [op |-> last.op, val |-> IF last.op = "put" THEN last.arg ELSE last.ret,
          ttl |-> last.ttl, swallowed |-> last.swallowed]
    ELSE NoPrev

\* The record of a call: what was asked, what came back, the resident keys
\* that left the tier during the call, and the call just before.
Call(op, tier, key, arg, ttl, r, before, after) ==
    [op |-> op, tier |-> tier, key |-> key, arg |-> arg, ttl |-> ttl,
     ret |-> r.ret, calls |-> r.calls, raised |-> r.raised, swallowed |-> r.swallowed,
     evicted |-> before \ after, prev |-> Prev(op, tier, key), stats |-> NoStats]

NoCall(op) ==
    [op |-> op, tier |-> "none", key |-> <<>>, arg |-> "None", ttl |-> 0,
     ret |-> "None", calls |-> 0, raised |-> FALSE, swallowed |-> FALSE,
     evicted |-> {}, prev |-> NoPrev, stats |-> NoStats]

(***************************************************************************)
(* The cache as a state machine: one action per method call, and the       *)
(* environment's steps (time passing, the Redis server going away and      *)
(* coming back, another client writing bytes that are not JSON).           *)
(***************************************************************************)

\* How construction went: no redis_url given; from_url and ping succeeded;
\* from_url or ping raised; ping returned False.
GoodProbes == {"no_url", "ok"}
FailedProbes == {"raises", "false"}

\* The callers of SpecConcurrent: none of them is in a call.
Callers == {"c1", "c2"}
IdleCaller == [pc |-> "idle", op |-> "none", key |-> <<>>, data |-> "None",
               ret |-> "None", raised |-> FALSE]
ConcIdle ==
    /\ callers = [c \in Callers |-> IdleCaller]
    /\ putlog = {}

\* The classifiers have been given nothing.
NoRoutes == [router |-> "none", app |-> "none"]
ClassIdle ==
    /\ classify_in = [body |-> <<>>, pad |-> 0]
    /\ classify_out = NoRoutes

\* The cache as constructed with no backing store, and never called.
CacheIdle ==
    /\ workload = [t \in Tiers |-> {}]
    /\ probe = "no_url"
    /\ redis_client = Construct("no_url")
    /\ server = [up |-> FALSE, data |-> {}]
    /\ response_cache = <<>>
    /\ embedding_cache = <<>>
    /\ agent_selection_cache = <<>>
    /\ hist = [born |-> [t \in Tiers |-> <<>>], used |-> [t \in Tiers |-> <<>>],
               streak |-> [t \in Tiers |-> {}]]
    /\ last = NoCall("init")

\* No agent selection has been asked for.
NoRequest == [part |-> "none", task |-> [body |-> <<>>, pad |-> 0], agent_type |-> "None",
              project_id |-> "None", repo |-> {}, fault |-> "none", mode |-> "full",
              claude_client |-> FALSE]
Pending == [done |-> FALSE]
NoSelections == [find_agent |-> Pending, find_best |-> Pending, execute |-> Pending]
SelectIdle ==
    /\ select_in = NoRequest
    /\ select_out = NoSelections

ToolIdle ==
    /\ tools_in = [registry |-> {}, tech_stack |-> <<>>, requirements |-> <<>>]
    /\ tools_out = [done |-> FALSE]

LearnIdle ==
    /\ total_tasks_completed = <<>>
    /\ execution_history = <<>>
    /\ checkpoints = <<>>

ClaudeIdle ==
    /\ claude_in = [prompt |-> "", agent_id |-> 0, project_id |-> "None", fault |-> "none",
                    history |-> [given |-> FALSE, items |-> <<>>]]
    /\ conversation_history = [given |-> FALSE, items |-> <<>>]
    /\ claude_call = [done |-> FALSE]

ChatIdle ==
    /\ conversations = <<>>
    /\ chat = [created |-> 0, acked |-> <<>>, last |-> [op |-> "none"]]

ChainIdle ==
    /\ tool_chains = <<>>
    /\ chain_run = [pc |-> "idle", steps |-> <<>>, i |-> 0, all_success |-> TRUE,
                    response |-> "None", seen |-> "None"]

OtherIdle == ConcIdle /\ ClassIdle /\ SelectIdle /\ ToolIdle /\ LearnIdle /\ ClaudeIdle /\ ChatIdle /\ ChainIdle

KeyIdle ==
    /\ in1 = <<<<>>, NoneCtx>>
    /\ in2 = <<<<>>, NoneCtx>>
    /\ out1 = <<>>
    /\ out2 = <<>>

\* Every part of the system outside `parts` is as constructed and unused.
IdleExcept(parts) ==
    /\ IF "key" \in parts THEN TRUE ELSE KeyIdle
    /\ IF "cache" \in parts THEN TRUE ELSE CacheIdle
    /\ IF "conc" \in parts THEN TRUE ELSE ConcIdle
    /\ IF "class" \in parts THEN TRUE ELSE ClassIdle
    /\ IF "select" \in parts THEN TRUE ELSE SelectIdle
    /\ IF "tools" \in parts THEN TRUE ELSE ToolIdle
    /\ IF "learn" \in parts THEN TRUE ELSE LearnIdle
    /\ IF "claude" \in parts THEN TRUE ELSE ClaudeIdle
    /\ IF "chat" \in parts THEN TRUE ELSE ChatIdle
    /\ IF "chain" \in parts THEN TRUE ELSE ChainIdle

\* Every part of the system but one is as constructed and unused.
IdleBut(part) == IdleExcept({part})

InitFor(probes, workloads) ==
    /\ KeyIdle
    /\ OtherIdle
    /\ workload \in workloads
    /\ probe \in probes
    /\ redis_client = Construct(probe)
    /\ server = [up |-> probe = "ok", data |-> {}]
    /\ response_cache = <<>>
    /\ embedding_cache = <<>>
    /\ agent_selection_cache = <<>>
    /\ hist = [born |-> [t \in Tiers |-> <<>>], used |-> [t \in Tiers |-> <<>>],
               streak |-> [t \in Tiers |-> {}]]
    /\ last = NoCall("init")

InitWith(probes) == InitFor(probes, Workloads)

\* An instance built with no backing store, or with one that answers.
Init == InitWith(GoodProbes)

\* An instance built with a backing-store URL whose probe failed.
InitFailedProbe == InitWith(FailedProbes)

CallGetCachedResponse(query, ctx) ==
    /\ query \in workload["response"]
    /\ LET r == GetCachedResponse(response_cache, redis_client, server, Clock, query, ctx)
           key == MakeKey(query, ctx)
       IN  /\ response_cache' = r.cache
           /\ server' = r.server
           /\ last' = Call("get", "response", key, "None", 0, r,
                         ResidentKeys("response", response_cache, Clock),
                         ResidentKeys("response", r.cache, Clock))
           /\ hist' = HistAfter("get", "response", key,
                                ResidentKeys("response", response_cache, Clock),
                                ResidentKeys("response", r.cache, Clock))
    /\ UNCHANGED <<keyVars, otherVars, workload, embedding_cache, agent_selection_cache,
                   redis_client, probe>>

CallCacheResponse(query, response, ctx, ttl) ==
    /\ query \in workload["response"]
    /\ LET r == CacheResponse(response_cache, redis_client, server, Clock,
                              query, response, ctx, ttl)
           key == MakeKey(query, ctx)
       IN  /\ response_cache' = r.cache
           /\ server' = r.server
           /\ last' = Call("put", "response", key, response, ttl, r,
                         ResidentKeys("response", response_cache, Clock),
                         ResidentKeys("response", r.cache, Clock))
           /\ hist' = HistAfter("put", "response", key,
                                ResidentKeys("response", response_cache, Clock),
                                ResidentKeys("response", r.cache, Clock))
    /\ UNCHANGED <<keyVars, otherVars, workload, embedding_cache, agent_selection_cache,
                   redis_client, probe>>

CallGetCachedEmbedding(text) ==
    /\ text \in workload["embedding"]
    /\ LET r == GetCachedEmbedding(embedding_cache, server, text)
           key == Md5(text)
       IN  /\ embedding_cache' = r.cache
           /\ server' = r.server
           /\ last' = Call("get", "embedding", key, "None", 0, r,
                         ResidentKeys("embedding", embedding_cache, Clock),
                         ResidentKeys("embedding", r.cache, Clock))
           /\ hist' = HistAfter("get", "embedding", key,
                                ResidentKeys("embedding", embedding_cache, Clock),
                                ResidentKeys("embedding", r.cache, Clock))
    /\ UNCHANGED <<keyVars, otherVars, workload, response_cache, agent_selection_cache,
                   redis_client, probe>>

CallCacheEmbedding(text, embedding) ==
    /\ text \in workload["embedding"]
    /\ LET r == CacheEmbedding(embedding_cache, server, text, embedding)
           key == Md5(text)
       IN  /\ embedding_cache' = r.cache
           /\ server' = r.server
           /\ last' = Call("put", "embedding", key, embedding, 0, r,
                         ResidentKeys("embedding", embedding_cache, Clock),
                         ResidentKeys("embedding", r.cache, Clock))
           /\ hist' = HistAfter("put", "embedding", key,
                                ResidentKeys("embedding", embedding_cache, Clock),
                                ResidentKeys("embedding", r.cache, Clock))
    /\ UNCHANGED <<keyVars, otherVars, workload, response_cache, agent_selection_cache,
                   redis_client, probe>>

CallGetCachedAgentSelection(task, project_id) ==
    /\ task \in workload["agent"]
    /\ LET r == GetCachedAgentSelection(agent_selection_cache, server, Clock, task, project_id)
           key == MakeKey(task, ProjectCtx(project_id))
       IN  /\ agent_selection_cache' = r.cache
           /\ server' = r.server
           /\ last' = Call("get", "agent", key, "None", 0, r,
                         ResidentKeys("agent", agent_selection_cache, Clock),
                         ResidentKeys("agent", r.cache, Clock))
           /\ hist' = HistAfter("get", "agent", key,
                                ResidentKeys("agent", agent_selection_cache, Clock),
                                ResidentKeys("agent", r.cache, Clock))
    /\ UNCHANGED <<keyVars, otherVars, workload, response_cache, embedding_cache,
                   redis_client, probe>>

\* A mutant of CallCacheAgentSelection: the selection is stored in the
\* response tier as well, as if the two tiers were one store.
CallCacheAgentSelectionShared(task, agent, project_id) ==
    /\ task \in workload["agent"]
    /\ LET r == CacheAgentSelection(agent_selection_cache, server, Clock,
                                    task, agent, project_id)
           key == MakeKey(task, ProjectCtx(project_id))
       IN  /\ agent_selection_cache' = r.cache
           /\ response_cache' = TtlSetItem(response_cache, key, agent, Clock,
                                           AgentTtl, AgentMaxsize)
           /\ server' = r.server
           /\ last' = Call("put", "agent", key, agent, 0, r,
                         ResidentKeys("agent", agent_selection_cache, Clock),
                         ResidentKeys("agent", r.cache, Clock))
           /\ hist' = HistAfter("put", "agent", key,
                                ResidentKeys("agent", agent_selection_cache, Clock),
                                ResidentKeys("agent", r.cache, Clock))
    /\ UNCHANGED <<keyVars, otherVars, workload, embedding_cache, redis_client, probe>>

CallCacheAgentSelection(task, agent, project_id) ==
    /\ task \in workload["agent"]
    /\ LET r == CacheAgentSelection(agent_selection_cache, server, Clock,
                                    task, agent, project_id)
           key == MakeKey(task, ProjectCtx(project_id))
       IN  /\ agent_selection_cache' = r.cache
           /\ server' = r.server
           /\ last' = Call("put", "agent", key, agent, 0, r,
                         ResidentKeys("agent", agent_selection_cache, Clock),
                         ResidentKeys("agent", r.cache, Clock))
           /\ hist' = HistAfter("put", "agent", key,
                                ResidentKeys("agent", agent_selection_cache, Clock),
                                ResidentKeys("agent", r.cache, Clock))
    /\ UNCHANGED <<keyVars, otherVars, workload, response_cache, embedding_cache,
                   redis_client, probe>>

\* A tier's cache after one tick of time.
AgedTier(tier) ==
    CASE tier = "response" -> Aged(response_cache)
      [] tier = "embedding" -> embedding_cache
      [] tier = "agent" -> Aged(agent_selection_cache)

\* Time passes: every expiry of the TTL caches and of the server comes one
\* tick closer, and the server drops the keys whose time is up.
Tick ==
    /\ response_cache' = Aged(response_cache)
    /\ agent_selection_cache' = Aged(agent_selection_cache)
    /\ server' = [server EXCEPT !.data =
                     {[e EXCEPT !.expires = @ - 1] : e \in {d \in @ : d.expires > Clock + 1}}]
    /\ hist' = [born |-> [t \in Tiers |->
                    RestrictSeq(hist.born[t], ResidentKeys(t, AgedTier(t), Clock))],
                used |-> [t \in Tiers |->
                    RestrictSeq(hist.used[t], ResidentKeys(t, AgedTier(t), Clock))],
                streak |-> [t \in Tiers |->
                    IF t = "embedding" THEN hist.streak[t] ELSE {}]]
    /\ last' = NoCall("env")
    /\ UNCHANGED <<keyVars, otherVars, workload, embedding_cache, redis_client, probe>>

\* The connection to the server is lost, or comes back.
ServerFlips ==
    /\ redis_client # "None"
    /\ server' = [server EXCEPT !.up = ~@]
    /\ last' = NoCall("env")
    /\ UNCHANGED <<keyVars, otherVars, workload, hist, response_cache, embedding_cache,
                   agent_selection_cache, redis_client, probe>>

\* Another client of the server stores bytes that are not JSON under a
\* response key.
ForeignWrite(query) ==
    /\ redis_client # "None"
    /\ server.up
    /\ query \in workload["response"]
    /\ query = <<"q1">>
    /\ server' = [server EXCEPT !.data =
                     {e \in @ : e.name # ResponseStoreKey(MakeKey(query, NoneCtx))}
                         \cup {[name |-> ResponseStoreKey(MakeKey(query, NoneCtx)),
                                bytes |-> <<"garbage">>,
                                expires |-> Clock + DefaultTtl]}]
    /\ last' = NoCall("env")
    /\ UNCHANGED <<keyVars, otherVars, workload, hist, response_cache, embedding_cache,
                   agent_selection_cache, redis_client, probe>>

Next ==
    \/ \E q \in Texts : CallGetCachedResponse(q, NoneCtx)
    \/ \E q \in Texts, v \in ResponseValues, ttl \in TtlArgs :
          CallCacheResponse(q, v, NoneCtx, ttl)
    \/ \E t \in Texts : CallGetCachedEmbedding(t)
    \/ \E t \in Texts, e \in Embeddings : CallCacheEmbedding(t, e)
    \/ \E t \in Texts : CallGetCachedAgentSelection(t, Null)
    \/ \E t \in Texts, a \in Agents : CallCacheAgentSelection(t, a, Null)
    \/ Tick
    \/ ServerFlips
    \/ \E q \in Texts : ForeignWrite(q)

Spec == Init /\ [][Next]_vars

\* get_stats is called; nothing but the record of the last call changes.
CallGetStats ==
    /\ last' = [NoCall("stats") EXCEPT
                   !.stats = GetStats(response_cache, embedding_cache,
                                      agent_selection_cache, redis_client, Clock)]
    /\ UNCHANGED <<keyVars, otherVars, workload, hist, response_cache, embedding_cache,
                   agent_selection_cache, redis_client, probe, server>>

NextStats == Next \/ CallGetStats

\* The cache with callers who also ask for its statistics.
SpecStats == Init /\ [][NextStats]_vars

SpecFailedProbe == InitFailedProbe /\ [][Next]_vars

(***************************************************************************)
(* _make_key on its own: two (query, context) arguments are drawn and the  *)
(* key of each is derived.                                                 *)
(***************************************************************************)

\* The dicts passed as context: up to two items, in either insertion order.
CtxValues == {Num("1"), Str("1")}
CtxItems ==
    {<<>>}
        \cup {<<[k |-> "a", v |-> v]>> : v \in CtxValues}
        \cup {<<[k |-> "b", v |-> Num("1")]>>}
        \cup {<<[k |-> "a", v |-> v], [k |-> "b", v |-> Num("1")]>> : v \in CtxValues}
        \cup {<<[k |-> "b", v |-> Num("1")], [k |-> "a", v |-> v]>> : v \in CtxValues}
KeyContexts == {NoneCtx} \cup {Dict(items) : items \in CtxItems}

\* The texts passed as query: two plain ones, and ones that end in the
\* JSON text of a dict.
KeyTexts ==
    {<<"q">>, <<"r">>}
        \cup {<<"q">> \o JsonDumps(items) : items \in CtxItems \ {<<>>}}

KeyInit ==
    /\ in1 \in KeyTexts \X KeyContexts
    /\ in2 \in KeyTexts \X KeyContexts
    /\ out1 = <<>>
    /\ out2 = <<>>
    /\ OtherIdle
    /\ workload = [t \in Tiers |-> {}]
    /\ probe = "no_url"
    /\ redis_client = Construct("no_url")
    /\ server = [up |-> FALSE, data |-> {}]
    /\ response_cache = <<>>
    /\ embedding_cache = <<>>
    /\ agent_selection_cache = <<>>
    /\ hist = [born |-> [t \in Tiers |-> <<>>], used |-> [t \in Tiers |-> <<>>],
               streak |-> [t \in Tiers |-> {}]]
    /\ last = NoCall("init")

Derive1 ==
    /\ out1 = <<>>
    /\ out1' = MakeKey(in1[1], in1[2])
    /\ UNCHANGED <<cacheVars, otherVars, in1, in2, out2>>

Derive2 ==
    /\ out2 = <<>>
    /\ out2' = MakeKey(in2[1], in2[2])
    /\ UNCHANGED <<cacheVars, otherVars, in1, in2, out1>>

KeyNext == Derive1 \/ Derive2

KeySpec == KeyInit /\ [][KeyNext]_vars

(***************************************************************************)
(* Several callers on one instance.  IntelligentCache takes no lock, so a  *)
(* call is a sequence of steps (each one operation on the TTLCache or on   *)
(* the Redis client) and the steps of different callers, and the passing   *)
(* of time, interleave freely.  callers[c].pc is the statement caller c is *)
(* about to run; key and data are its locals cache_key and data/response.  *)
(***************************************************************************)

\* The responses the concurrent callers put.
ConcValues == {"v1"}

Returned(op, key, ret, raised) ==
    [pc |-> "returned", op |-> op, key |-> key, data |-> "None",
     ret |-> ret, raised |-> raised]

At(pc, op, key, data) ==
    [pc |-> pc, op |-> op, key |-> key, data |-> data, ret |-> "None", raised |-> FALSE]

Free(c) == callers[c].pc \in {"idle", "returned"}

\* get_cached_response, up to `if cache_key in self.response_cache:`
GetCheckMembership(c, query) ==
    /\ Free(c)
    /\ query \in workload["response"]
    /\ LET cache_key == MakeKey(query, NoneCtx)
       IN  callers' = [callers EXCEPT ![c] =
               IF TtlContains(response_cache, cache_key, Clock)
               THEN At("read", "get", cache_key, "None")
               ELSE IF redis_client # "None"
                    THEN At("redis_get", "get", cache_key, "None")
                    ELSE Returned("get", cache_key, "None", FALSE)]
    /\ UNCHANGED <<keyVars, concOthers, cacheVars, putlog>>

\* `return self.response_cache[cache_key]`: TTLCache.__getitem__ raises
\* KeyError for a key that is absent or expired, and nothing catches it.
GetReadEntry(c) ==
    /\ callers[c].pc = "read"
    /\ LET cache_key == callers[c].key
       IN  IF TtlContains(response_cache, cache_key, Clock)
           THEN /\ response_cache' = TtlGetItem(response_cache, cache_key)
                /\ callers' = [callers EXCEPT ![c] =
                       Returned("get", cache_key, ValueOf(response_cache, cache_key), FALSE)]
           ELSE /\ response_cache' = response_cache
                /\ callers' = [callers EXCEPT ![c] =
                       Returned("get", cache_key, "None", TRUE)]
    /\ UNCHANGED <<keyVars, concOthers, workload, hist, embedding_cache, agent_selection_cache,
                   redis_client, probe, server, last, putlog>>

\* `cached = self.redis_client.get(...)` and `data = json.loads(cached)`,
\* inside the try block.
GetFromRedis(c) ==
    /\ callers[c].pc = "redis_get"
    /\ LET cache_key == callers[c].key
           got == RedisGet(server, ResponseStoreKey(cache_key), Clock)
       IN  callers' = [callers EXCEPT ![c] =
               IF got.raised \/ got.bytes = <<>> \/ ~Parseable(got.bytes)
               THEN Returned("get", cache_key, "None", FALSE)
               ELSE At("populate", "get", cache_key, JsonLoads(got.bytes))]
    /\ UNCHANGED <<keyVars, concOthers, cacheVars, putlog>>

\* `self.response_cache[cache_key] = data` and `return data`
GetPopulate(c) ==
    /\ callers[c].pc = "populate"
    /\ response_cache' = TtlSetItem(response_cache, callers[c].key, callers[c].data,
                                    Clock, ResponseTtl, ResponseMaxsize)
    /\ callers' = [callers EXCEPT ![c] =
           Returned("get", callers[c].key, callers[c].data, FALSE)]
    /\ UNCHANGED <<keyVars, concOthers, workload, hist, embedding_cache, agent_selection_cache,
                   redis_client, probe, server, last, putlog>>

\* cache_response, up to `self.response_cache[cache_key] = response`
PutStoreEntry(c, query, response) ==
    /\ Free(c)
    /\ query \in workload["response"]
    /\ LET cache_key == MakeKey(query, NoneCtx)
       IN  /\ response_cache' = TtlSetItem(response_cache, cache_key, response,
                                           Clock, ResponseTtl, ResponseMaxsize)
           /\ putlog' = putlog \cup {<<cache_key, response>>}
           /\ callers' = [callers EXCEPT ![c] =
                  IF redis_client # "None"
                  THEN At("setex", "put", cache_key, response)
                  ELSE Returned("put", cache_key, "None", FALSE)]
    /\ UNCHANGED <<keyVars, concOthers, workload, hist, embedding_cache, agent_selection_cache,
                   redis_client, probe, server, last>>

\* `self.redis_client.setex(..., ttl, json.dumps(response))` with the default
\* ttl, inside the try block.
PutToRedis(c) ==
    /\ callers[c].pc = "setex"
    /\ server' = IF Serializable(callers[c].data)
                 THEN RedisSetex(server, ResponseStoreKey(callers[c].key), DefaultTtl,
                                 JsonDumpsResponse(callers[c].data), Clock).server
                 ELSE server
    /\ callers' = [callers EXCEPT ![c] = Returned("put", callers[c].key, "None", FALSE)]
    /\ UNCHANGED <<keyVars, concOthers, workload, hist, response_cache, embedding_cache,
                   agent_selection_cache, redis_client, probe, last, putlog>>

\* Time passes between two steps.
ConcTick ==
    /\ response_cache' = Aged(response_cache)
    /\ server' = [server EXCEPT !.data =
                     {[e EXCEPT !.expires = @ - 1] : e \in {d \in @ : d.expires > Clock + 1}}]
    /\ UNCHANGED <<keyVars, concOthers, concVars, workload, hist, embedding_cache,
                   agent_selection_cache, redis_client, probe, last>>

ConcNext ==
    \/ \E c \in Callers, q \in Texts : GetCheckMembership(c, q)
    \/ \E c \in Callers : GetReadEntry(c)
    \/ \E c \in Callers : GetFromRedis(c)
    \/ \E c \in Callers : GetPopulate(c)
    \/ \E c \in Callers, q \in Texts, v \in ConcValues : PutStoreEntry(c, q, v)
    \/ \E c \in Callers : PutToRedis(c)
    \/ ConcTick

InitConcurrent ==
    InitFor(GoodProbes, {[t \in Tiers |-> IF t = "response" THEN Texts ELSE {}]})

SpecConcurrent == InitConcurrent /\ [][ConcNext]_vars

(***************************************************************************)
(* The response tier and the agent-selection tier used with the same text  *)
(* and the same context {'project_id': None}, so that both derive the same *)
(* key.                                                                    *)
(***************************************************************************)

SameKeyTexts == {<<"q1">>, <<"q2">>}

InitSameKey ==
    InitFor(GoodProbes,
            {[t \in Tiers |-> IF t = "embedding" THEN {<<"q1">>} ELSE SameKeyTexts]})

SameKeyNext ==
    \/ \E q \in SameKeyTexts : CallGetCachedResponse(q, ProjectCtx(Null))
    \/ \E q \in SameKeyTexts : CallCacheResponse(q, "v1", ProjectCtx(Null), DefaultTtl)
    \/ \E t \in SameKeyTexts : CallGetCachedEmbedding(t)
    \/ \E t \in SameKeyTexts : CallCacheEmbedding(t, "e1")
    \/ \E t \in SameKeyTexts : CallGetCachedAgentSelection(t, Null)
    \/ \E t \in SameKeyTexts : CallCacheAgentSelection(t, "a1", Null)
    \/ Tick

SpecSameKey == InitSameKey /\ [][SameKeyNext]_vars

(***************************************************************************)
(* The query classifiers: IntelligentAgentRouter.classify_query_complexity *)
(* (router/intelligent_router.py) and classify_query (api/app.py, used in  *)
(* lite mode).  A text is its first words as a sequence of tokens, the     *)
(* words separated by " " tokens, followed by `pad` further words that     *)
(* hold no keyword.  A token is a piece of a word that a keyword either    *)
(* covers whole or not at all.                                             *)
(***************************************************************************)

\* str.lower(), on a token
LowerToken(tok) ==
    CASE tok = "JOIN" -> "join"
      [] tok = "Debug" -> "debug"
      [] tok = "Security" -> "security"
      [] tok = "SQL" -> "sql"
      [] tok = "My" -> "my"
      [] tok = "Team" -> "team"
      [] tok = "E2E" -> "e2e"
      [] OTHER -> tok

\* A mutant of Lower: the text is compared as it was typed.
LowerAsTyped(s) == s

\* str.lower()
Lower(s) == [i \in 1..Len(s) |-> LowerToken(s[i])]

\* `kw in s`: kw occurs in s as a contiguous run.
Contains(s, kw) ==
    \E i \in 0..(Len(s) - Len(kw)) : SubSeq(s, i + 1, i + Len(kw)) = kw

\* len(query.split())
WordCount(q) ==
    Cardinality({i \in 1..Len(q.body) :
                    q.body[i] # " " /\ (i = 1 \/ q.body[i - 1] = " ")}) + q.pad

\* sum(1 for kw in keywords if kw in query_lower)
Score(keywords, query_lower) ==
    Cardinality({kw \in keywords : Contains(query_lower, kw)})

\* self.simple_keywords, self.complex_keywords, self.oracle_keywords
RouterSimpleKeywords ==
    {<<"summarize">>, <<"summary">>, <<"tldr">>, <<"brief">>, <<"short">>,
     <<"classify">>, <<"category">>, <<"type">>, <<"intent">>,
     <<"simple">>, <<"quick">>, <<"basic">>, <<"what", " ", "is">>, <<"define">>,
     <<"translate">>, <<"extract">>, <<"convert">>, <<"format">>, <<"list">>}
RouterComplexKeywords ==
    {<<"develop">>, <<"build">>, <<"create", " ", "code">>, <<"implement">>,
     <<"refactor">>, <<"architect">>, <<"design">>, <<"analyze", " ", "deeply">>,
     <<"reason", " ", "about">>, <<"strategic">>, <<"complex">>, <<"debug">>,
     <<"optimize">>, <<"review", " ", "code">>}
OracleKeywords ==
    {<<"sql">>, <<"database">>, <<"query", " ", "data">>,
     <<"analyze", " ", "database">>, <<"schema">>, <<"migration">>, <<"graph">>,
     <<"aggregate">>, <<"join">>}

\* SIMPLE_KEYWORDS, COMPLEX_KEYWORDS of api/app.py
AppSimpleKeywords ==
    {<<"summarize">>, <<"summary">>, <<"tldr">>, <<"brief">>, <<"short">>,
     <<"classify">>, <<"category">>, <<"what", " ", "is">>, <<"define">>,
     <<"explain", " ", "simply">>, <<"translate">>, <<"extract">>, <<"convert">>,
     <<"format">>, <<"list">>}
AppComplexKeywords ==
    {<<"develop">>, <<"build">>, <<"create">>, <<"implement">>, <<"refactor">>,
     <<"architect">>, <<"design">>, <<"analyze">>, <<"debug">>, <<"optimize">>,
     <<"review", " ", "code">>, <<"write", " ", "code">>, <<"fix", " ", "bug">>,
     <<"improve">>}

RouterComplexThreshold == 2     \* if complex_score >= 2
RouterSimpleThreshold == 2      \* if simple_score >= 2
RouterLengthThreshold == 20     \* if len(query.split()) < 20
AppComplexThreshold == 1        \* if complex_score >= 1
AppSimpleThreshold == 1         \* if simple_score >= 1
AppLengthThreshold == 15        \* if len(query.split()) < 15

\* A mutant of ClassifyQueryComplexity: the simple rule is tried before the
\* complex rule.
ClassifyQueryComplexitySimpleFirst(query) ==
    LET query_lower == Lower(query.body)
    IN  IF \E kw \in OracleKeywords : Contains(query_lower, kw) THEN "oracle"
        ELSE IF Score(RouterSimpleKeywords, query_lower) >= RouterSimpleThreshold
             THEN "ollama"
        ELSE IF Score(RouterComplexKeywords, query_lower) >= RouterComplexThreshold
             THEN "claude"
        ELSE IF WordCount(query) < RouterLengthThreshold THEN "ollama"
        ELSE IF \E word \in {<<"code">>, <<"develop">>, <<"build">>} :
                   Contains(query_lower, word)
             THEN "claude"
        ELSE "ollama"

\* IntelligentAgentRouter.classify_query_complexity
ClassifyQueryComplexity(query) ==
    LET query_lower == Lower(query.body)
    IN  IF \E kw \in OracleKeywords : Contains(query_lower, kw) THEN "oracle"
        ELSE IF Score(RouterComplexKeywords, query_lower) >= RouterComplexThreshold
             THEN "claude"
        ELSE IF Score(RouterSimpleKeywords, query_lower) >= RouterSimpleThreshold
             THEN "ollama"
        ELSE IF WordCount(query) < RouterLengthThreshold THEN "ollama"
        ELSE IF \E word \in {<<"code">>, <<"develop">>, <<"build">>} :
                   Contains(query_lower, word)
             THEN "claude"
        ELSE "ollama"

\* A mutant of ClassifyQuery: the length fallback is the wrong way round.
ClassifyQueryShortIsHosted(query) ==
    LET query_lower == Lower(query.body)
    IN  IF Score(AppComplexKeywords, query_lower) >= AppComplexThreshold THEN "claude"
        ELSE IF Score(AppSimpleKeywords, query_lower) >= AppSimpleThreshold THEN "ollama"
        ELSE IF WordCount(query) < AppLengthThreshold THEN "claude"
        ELSE "ollama"

\* classify_query of api/app.py
ClassifyQuery(query) ==
    LET query_lower == Lower(query.body)
    IN  IF Score(AppComplexKeywords, query_lower) >= AppComplexThreshold THEN "claude"
        ELSE IF Score(AppSimpleKeywords, query_lower) >= AppSimpleThreshold THEN "ollama"
        ELSE IF WordCount(query) < AppLengthThreshold THEN "ollama"
        ELSE "claude"

\* The texts classified: up to MaxWords words drawn from ClassWords, then
\* one of PadCounts plain words.
MaxWords == 3
ClassWords ==
    {<<"JOIN">>, <<"para", "graph">>, <<"build">>, <<"Debug">>, <<"summarize">>,
     <<"short", "list">>, <<"create">>, <<"code">>, <<"type">>}
PadCounts == {0, 14, 19}

RECURSIVE JoinWords(_)
JoinWords(ws) ==
    IF ws = <<>> THEN <<>>
    ELSE IF Len(ws) = 1 THEN ws[1]
    ELSE ws[1] \o <<" ">> \o JoinWords(Tail(ws))

ClassTexts ==
    {[body |-> JoinWords(ws), pad |-> p] :
        ws \in UNION {[1..n -> ClassWords] : n \in 0..MaxWords}, p \in PadCounts}

ClassInit ==
    /\ IdleBut("class")
    /\ classify_in \in ClassTexts
    /\ classify_out = NoRoutes

CallClassifyQueryComplexity ==
    /\ classify_out.router = "none"
    /\ classify_out' = [classify_out EXCEPT !.router = ClassifyQueryComplexity(classify_in)]
    /\ UNCHANGED <<keyVars, cacheVars, classOthers, classify_in>>

CallClassifyQuery ==
    /\ classify_out.app = "none"
    /\ classify_out' = [classify_out EXCEPT !.app = ClassifyQuery(classify_in)]
    /\ UNCHANGED <<keyVars, cacheVars, classOthers, classify_in>>

ClassifyNext == CallClassifyQueryComplexity \/ CallClassifyQuery

ClassifySpec == ClassInit /\ [][ClassifyNext]_vars

(***************************************************************************)
(* Agent selection: IntelligentAgentRouter.find_best_agent_for_task (the   *)
(* semantic path, a query on the agent_repository table), find_agent_for_  *)
(* task of api/app.py (the keyword path) and the /execute-task handler     *)
(* that combines them.  A row of agent_repository is the record of its     *)
(* agent_type, success_rate (NullRate when missing), routing_priority and  *)
(* its VECTOR_DISTANCE to the task at hand.  An agent_type argument is     *)
(* "None", the empty string or a type name.                                *)
(***************************************************************************)

NoAgent == [kind |-> "None"]

\* A success_rate: missing (NULL), or a number.
NullRate == [null |-> TRUE, v |-> 0]
Rate(x) == [null |-> FALSE, v |-> x]

\* `if agent_type:`
HintGiven(agent_type) == agent_type \notin {"None", ""}

\* success_rate DESC without NULLS LAST: Oracle puts NULL first.  A mutant
\* of RateSortsBefore.
RateSortsBeforeNullsFirst(a, b) ==
    /\ b.success_rate # NullRate
    /\ (a.success_rate = NullRate \/ a.success_rate.v > b.success_rate.v)

\* success_rate DESC NULLS LAST: row a comes strictly before row b.
RateSortsBefore(a, b) ==
    /\ a.success_rate # NullRate
    /\ (b.success_rate = NullRate \/ a.success_rate.v > b.success_rate.v)

\* ORDER BY distance ASC, success_rate DESC NULLS LAST, routing_priority DESC:
\* row a comes strictly before row b.
SortsBefore(a, b) ==
    \/ a.distance < b.distance
    \/ /\ a.distance = b.distance
       /\ RateSortsBefore(a, b)
    \/ /\ a.distance = b.distance
       /\ ~RateSortsBefore(a, b)
       /\ ~RateSortsBefore(b, a)
       /\ a.routing_priority > b.routing_priority

\* The dict find_best_agent_for_task builds from the row fetched.
AgentOfRow(row) ==
    [kind |-> "repository", type |-> row.agent_type, distance |-> row.distance,
     success_rate |-> row.success_rate, routing_priority |-> row.routing_priority]

Outcome(ret, raised) == [done |-> TRUE, ret |-> ret, raised |-> raised]

\* IntelligentAgentRouter.find_best_agent_for_task: the outcomes the call
\* can have (FETCH FIRST 1 ROWS ONLY takes any one of the rows that sort
\* first).  Nothing catches what embedding_model.encode or cursor.execute
\* raise.
FindBestAgentForTask(repo, agent_type, fault) ==
    LET rows == IF HintGiven(agent_type)
                THEN {r \in repo : r.agent_type = agent_type}
                ELSE repo
        first == {r \in rows : \A o \in rows : ~SortsBefore(o, r)}
    IN  IF fault \in {"embedding", "repository"} THEN {Outcome(NoAgent, TRUE)}
        ELSE IF rows = {} THEN {Outcome(NoAgent, FALSE)}
        ELSE {Outcome(AgentOfRow(r), FALSE) : r \in first}

\* DEFAULT_AGENTS of api/app.py, by position.
DefaultAgents ==
    <<[id |-> 1, type |-> "code_review"], [id |-> 2, type |-> "refactoring"],
      [id |-> 3, type |-> "testing"], [id |-> 4, type |-> "architecture"],
      [id |-> 5, type |-> "debugging"], [id |-> 6, type |-> "code_generation"],
      [id |-> 7, type |-> "devops"]>>

\* The keyword sets of find_agent_for_task, in the order they are tried.
ReviewKeywords == {<<"review">>, <<"security">>, <<"vulnerability">>}
RefactorKeywords == {<<"refactor">>, <<"clean">>, <<"improve", " ", "structure">>}
TestKeywords == {<<"test">>, <<"coverage">>, <<"unit", " ", "test">>}
ArchitectureKeywords == {<<"architect">>, <<"design">>, <<"scale">>}
DebugKeywords == {<<"bug">>, <<"debug">>, <<"fix">>, <<"error">>}

AnyIn(keywords, s) == \E kw \in keywords : Contains(s, kw)

DefaultAgentDict(agent) == [kind |-> "default", agent_id |-> agent.id, type |-> agent.type]

\* A mutant of FindAgentForTask: the keywords are tried before the type.
FindAgentForTaskKeywordsFirst(task, agent_type) ==
    LET task_lower == Lower(task.body)
        typed == {i \in 1..Len(DefaultAgents) : DefaultAgents[i].type = agent_type}
    IN  DefaultAgentDict(
            IF AnyIn(ReviewKeywords, task_lower) THEN DefaultAgents[1]
            ELSE IF AnyIn(RefactorKeywords, task_lower) THEN DefaultAgents[2]
            ELSE IF AnyIn(TestKeywords, task_lower) THEN DefaultAgents[3]
            ELSE IF AnyIn(ArchitectureKeywords, task_lower) THEN DefaultAgents[4]
            ELSE IF AnyIn(DebugKeywords, task_lower) THEN DefaultAgents[5]
            ELSE IF HintGiven(agent_type) /\ typed # {}
                 THEN DefaultAgents[CHOOSE i \in typed : \A j \in typed : i <= j]
            ELSE DefaultAgents[1])

\* A mutant of FindAgentForTask: the bug/debug set is tried first.
FindAgentForTaskDebugFirst(task, agent_type) ==
    LET task_lower == Lower(task.body)
        typed == {i \in 1..Len(DefaultAgents) : DefaultAgents[i].type = agent_type}
    IN  DefaultAgentDict(
            IF HintGiven(agent_type) /\ typed # {}
            THEN DefaultAgents[CHOOSE i \in typed : \A j \in typed : i <= j]
            ELSE IF AnyIn(DebugKeywords, task_lower) THEN DefaultAgents[5]
            ELSE IF AnyIn(ReviewKeywords, task_lower) THEN DefaultAgents[1]
            ELSE IF AnyIn(RefactorKeywords, task_lower) THEN DefaultAgents[2]
            ELSE IF AnyIn(TestKeywords, task_lower) THEN DefaultAgents[3]
            ELSE IF AnyIn(ArchitectureKeywords, task_lower) THEN DefaultAgents[4]
            ELSE DefaultAgents[1])

\* find_agent_for_task of api/app.py
FindAgentForTask(task, agent_type) ==
    LET task_lower == Lower(task.body)
        typed == {i \in 1..Len(DefaultAgents) : DefaultAgents[i].type = agent_type}
    IN  DefaultAgentDict(
            IF HintGiven(agent_type) /\ typed # {}
            THEN DefaultAgents[CHOOSE i \in typed : \A j \in typed : i <= j]
            ELSE IF AnyIn(ReviewKeywords, task_lower) THEN DefaultAgents[1]
            ELSE IF AnyIn(RefactorKeywords, task_lower) THEN DefaultAgents[2]
            ELSE IF AnyIn(TestKeywords, task_lower) THEN DefaultAgents[3]
            ELSE IF AnyIn(ArchitectureKeywords, task_lower) THEN DefaultAgents[4]
            ELSE IF AnyIn(DebugKeywords, task_lower) THEN DefaultAgents[5]
            ELSE DefaultAgents[1])

\* What /execute-task answers: the HTTP status and the JSON body's route,
\* agent (NoAgent when the body has none) and error ("None" when absent).
Response(status, route, agent, error) ==
    [done |-> TRUE, status |-> status, route |-> route, agent |-> agent, error |-> error]

\* The full-mode branch of execute_task after find_best_agent_for_task came
\* back with `best`: what the one try block around it all answers.
ExecuteWithClaude(req, best) ==
    LET agent == IF best.ret = NoAgent
                 THEN FindAgentForTask(req.task, req.agent_type)
                 ELSE best.ret
    IN  IF best.raised THEN Response(500, "claude", NoAgent, req.fault)
        ELSE IF req.fault = "claude" THEN Response(500, "claude", agent, "claude")
        ELSE Response(200, "claude", agent, "None")

\* execute_task of api/app.py: the answers the request can get.  A failure
\* of assign_agent_to_project is caught and logged.
ExecuteTask(req) ==
    LET route == IF req.mode = "full"
                 THEN ClassifyQueryComplexity(req.task)
                 ELSE ClassifyQuery(req.task)
        agent == FindAgentForTask(req.task, req.agent_type)
    IN  IF req.mode = "lite"
        THEN IF req.claude_client
             THEN IF req.fault = "claude"
                  THEN {Response(500, "claude", agent, "claude")}
                  ELSE {Response(200, "claude", agent, "None")}
             ELSE {Response(200, route, agent, "None")}
        ELSE IF route = "ollama"
        THEN IF req.fault = "ollama"
             THEN {Response(503, "ollama", NoAgent, "ollama")}
             ELSE {Response(200, "ollama", NoAgent, "None")}
        ELSE {ExecuteWithClaude(req, best) :
                 best \in FindBestAgentForTask(req.repo, req.agent_type, req.fault)}

\* The rows agent_repository can hold, and the repositories of up to
\* MaxAgents rows.
MaxAgents == 2
AgentTypes == {"code_review", "testing"}
Distances == {1, 2}
SuccessRates == {NullRate, Rate(0), Rate(1)}
Priorities == {1, 2}
Rows == [agent_type : AgentTypes, distance : Distances, success_rate : SuccessRates,
         routing_priority : Priorities]
RECURSIVE ReposUpTo(_)
ReposUpTo(n) ==
    IF n = 0 THEN {{}}
    ELSE LET smaller == ReposUpTo(n - 1)
         IN  smaller \cup {repo \cup {row} : repo \in smaller, row \in Rows}
Repos == ReposUpTo(MaxAgents)

Text(ws) == [body |-> JoinWords(ws), pad |-> 0]

\* The requests: ones that exercise the ranking of the repository's rows,
\* ones where a dependency fails, and ones that exercise the keyword path.
RankingRequests ==
    [part : {"ranking"}, task : {Text(<<<<"build">>, <<"Debug">>>>)},
     agent_type : {"None", "", "testing", "devops"}, project_id : {"None"},
     repo : Repos, fault : {"none"}, mode : {"full"}, claude_client : {FALSE}]

Faults == {"none", "embedding", "repository", "assign", "claude", "ollama"}
FaultRequests ==
    [part : {"faults"},
     task : {Text(<<<<"build">>, <<"Debug">>>>), Text(<<<<"JOIN">>>>), Text(<<<<"hello">>>>)},
     agent_type : {"None", "testing"}, project_id : {"None", "p1"},
     repo : {{}, {[agent_type |-> "testing", distance |-> 1, success_rate |-> Rate(1),
                   routing_priority |-> 1]}},
     fault : Faults, mode : {"full", "lite"}, claude_client : BOOLEAN]

MaxTaskWords == 2
TaskWords ==
    {<<"Security">>, <<"refactor">>, <<"la", "test">>, <<"scale">>, <<"debug">>,
     <<"hello">>}
KeywordRequests ==
    [part : {"keywords"},
     task : {Text(ws) : ws \in UNION {[1..n -> TaskWords] : n \in 0..MaxTaskWords}},
     agent_type : {"None", "", "testing", "devops", "nonexistent"},
     project_id : {"None"}, repo : {{}}, fault : {"none"}, mode : {"lite"},
     claude_client : {FALSE}]

SelectInit ==
    /\ IdleBut("select")
    /\ select_in \in RankingRequests \cup FaultRequests \cup KeywordRequests
    /\ select_out = NoSelections

CallFindAgentForTask ==
    /\ ~select_out.find_agent.done
    /\ select_out' = [select_out EXCEPT !.find_agent =
           Outcome(FindAgentForTask(select_in.task, select_in.agent_type), FALSE)]
    /\ UNCHANGED <<keyVars, cacheVars, selectOthers, select_in>>

CallFindBestAgentForTask ==
    /\ ~select_out.find_best.done
    /\ \E best \in FindBestAgentForTask(select_in.repo, select_in.agent_type,
                                        select_in.fault) :
          select_out' = [select_out EXCEPT !.find_best = best]
    /\ UNCHANGED <<keyVars, cacheVars, selectOthers, select_in>>

CallExecuteTask ==
    /\ ~select_out.execute.done
    /\ \E response \in ExecuteTask(select_in) :
          select_out' = [select_out EXCEPT !.execute = response]
    /\ UNCHANGED <<keyVars, cacheVars, selectOthers, select_in>>

SelectNext == CallFindAgentForTask \/ CallFindBestAgentForTask \/ CallExecuteTask

SelectSpec == SelectInit /\ [][SelectNext]_vars

(***************************************************************************)
(* Tool recommendation: MCPServerManager.recommend_tools_for_project and   *)
(* _is_essential of mcp/manager.py.  A registry row carries the columns    *)
(* the method reads or filters on; distances and reliability scores are    *)
(* counted in hundredths.  VECTOR_DISTANCE yields a binary double, so      *)
(* float(row[5]) keeps the value the query ordered the rows by.            *)
(***************************************************************************)

AlwaysEssential == {"filesystem", "github", "memory"}
ReliabilityThreshold == 80
FetchFirst == 10
DistanceThreshold == 50
RecommendedMax == 5

\* any(kw in s for s in strings_lower), for one of the keywords
AnyMentions(strings, kws) ==
    \E i \in 1..Len(strings) : \E kw \in kws : Contains(Lower(strings[i]), kw)

\* A mutant of IsEssential: only the always-essential names count.
IsEssentialByNameOnly(tool, tech_stack, requirements) ==
    tool.name \in AlwaysEssential

IsEssential(tool, tech_stack, requirements) ==
    \/ tool.name \in AlwaysEssential
    \/ tool.name = "postgresql" /\ AnyMentions(tech_stack, {<<"postgres">>, <<"sql">>})
    \/ tool.name = "slack" /\ AnyMentions(requirements, {<<"team">>, <<"collaboration">>})
    \/ tool.name = "puppeteer" /\ AnyMentions(requirements, {<<"testing">>, <<"e2e">>})
    \/ tool.name = "brave-search" /\ AnyMentions(requirements, {<<"research">>})

\* WHERE reliability_score > 0.8
Reliable(registry) == {row \in registry : row.reliability_score > ReliabilityThreshold}

\* ORDER BY distance ASC: every order of the rows by ascending distance; the
\* order among rows at the same distance is the database's choice.
RECURSIVE OrderByDistance(_)
OrderByDistance(rows) ==
    IF rows = {} THEN {<<>>}
    ELSE LET nearest == {r \in rows : \A o \in rows : r.distance <= o.distance}
         IN  UNION {{<<r>> \o s : s \in OrderByDistance(rows \ {r})} : r \in nearest}

\* s[:n]
FirstRows(s, n) == SubSeq(s, 1, IF Len(s) < n THEN Len(s) ELSE n)

\* The rows the cursor yields: FETCH FIRST 10 ROWS ONLY of the ordered rows.
SelectCandidates(registry) ==
    {FirstRows(s, FetchFirst) : s \in OrderByDistance(Reliable(registry))}

\* {**tool, 'reason': reason}
WithReason(tools, reason) ==
    [i \in 1..Len(tools) |->
        [name |-> tools[i].name, distance |-> tools[i].distance, reason |-> reason]]

\* A mutant of RecommendToolsForProject: the recommended list is not cut.
RecommendToolsForProjectUncut(registry, tech_stack, requirements) ==
    {LET essential == SelectSeq(candidates,
                          LAMBDA tool : IsEssential(tool, tech_stack, requirements))
         recommended == SelectSeq(candidates,
                          LAMBDA tool : /\ ~IsEssential(tool, tech_stack, requirements)
                                        /\ tool.distance < DistanceThreshold)
     IN  [done |-> TRUE, candidates |-> candidates,
          essential |-> WithReason(essential, "Essential for your tech stack"),
          recommended |-> WithReason(recommended, "Recommended based on project type")]
     : candidates \in SelectCandidates(registry)}

\* A mutant of RecommendToolsForProject: a tool at the threshold distance is
\* recommended too.
RecommendToolsForProjectAtThreshold(registry, tech_stack, requirements) ==
    {LET essential == SelectSeq(candidates,
                          LAMBDA tool : IsEssential(tool, tech_stack, requirements))
         recommended == SelectSeq(candidates,
                          LAMBDA tool : /\ ~IsEssential(tool, tech_stack, requirements)
                                        /\ tool.distance <= DistanceThreshold)
     IN  [done |-> TRUE, candidates |-> candidates,
          essential |-> WithReason(essential, "Essential for your tech stack"),
          recommended |-> FirstRows(WithReason(recommended,
                              "Recommended based on project type"), RecommendedMax)]
     : candidates \in SelectCandidates(registry)}

\* The results recommend_tools_for_project can return, one for each order
\* in which the query can yield its rows; candidates is the list built
\* from the cursor.
RecommendToolsForProject(registry, tech_stack, requirements) ==
    {LET essential == SelectSeq(candidates,
                          LAMBDA tool : IsEssential(tool, tech_stack, requirements))
         recommended == SelectSeq(candidates,
                          LAMBDA tool : /\ ~IsEssential(tool, tech_stack, requirements)
                                        /\ tool.distance < DistanceThreshold)
     IN  [done |-> TRUE, candidates |-> candidates,
          essential |-> WithReason(essential, "Essential for your tech stack"),
          recommended |-> FirstRows(WithReason(recommended,
                              "Recommended based on project type"), RecommendedMax)]
     : candidates \in SelectCandidates(registry)}

\* The registries: the three always-essential servers, the four servers a
\* stack or requirement rule names, and up to MaxFillers further servers at
\* evenly spaced distances.  Server names are distinct within a registry.
MaxFillers == 8

RegistryRow(name, distance, score) ==
    [name |-> name, distance |-> distance, reliability_score |-> score]

Optional(name, distances) ==
    {{}} \cup {{RegistryRow(name, d, 95)} : d \in distances}

Fillers(n, step) == {RegistryRow("tool" \o ToString(i), step * i, 95) : i \in 1..n}

Registries ==
    {{RegistryRow("filesystem", fd, fs), RegistryRow("github", gd, 95),
      RegistryRow("memory", 40, 95)} \cup pg \cup sl \cup pu \cup br \cup Fillers(n, step) :
        fd \in {12, 90}, fs \in {80, 95}, gd \in {22, 90},
        pg \in Optional("postgresql", {30, 50}), sl \in Optional("slack", {45}),
        pu \in Optional("puppeteer", {50}), br \in Optional("brave-search", {60}),
        n \in 0..MaxFillers, step \in {5, 10}}

TechStacks ==
    {<<>>, <<<<"python">>>>, <<<<"My", "SQL">>>>, <<<<"postgres", "ql">>, <<"python">>>>}
RequirementLists ==
    {<<>>, <<<<"Team", " ", "chat">>>>, <<<<"E2E", " ", "tests">>, <<"research">>>>}

ToolInit ==
    /\ IdleBut("tools")
    /\ tools_in \in [registry : Registries, tech_stack : TechStacks,
                     requirements : RequirementLists]
    /\ tools_out = [done |-> FALSE]

CallRecommendToolsForProject ==
    /\ ~tools_out.done
    /\ tools_out' \in RecommendToolsForProject(tools_in.registry, tools_in.tech_stack,
                                               tools_in.requirements)
    /\ UNCHANGED <<keyVars, cacheVars, toolOthers, tools_in>>

ToolNext == CallRecommendToolsForProject

ToolSpec == ToolInit /\ [][ToolNext]_vars

(***************************************************************************)
(* /execute-task beside an IntelligentCache instance whose agent-selection *)
(* tier is used with the request's task and project_id.                    *)
(***************************************************************************)

\* The project_id of a request as the cache methods receive it.
ProjectOf(project_id) == IF project_id = "None" THEN Null ELSE Str(project_id)

CachedTask == Text(<<<<"build">>, <<"Debug">>>>)
CachedProjects == {"None", "p1"}
TestingRow == [agent_type |-> "testing", distance |-> 1, success_rate |-> Rate(1),
               routing_priority |-> 1]
ReviewRow == [agent_type |-> "code_review", distance |-> 2, success_rate |-> Rate(1),
              routing_priority |-> 1]
\* The agents a caller may have stored for the task.
CachedAgents == {AgentOfRow(TestingRow), AgentOfRow(ReviewRow)}

CachedSelectionRequests ==
    [part : {"cached"}, task : {CachedTask}, agent_type : {"None"},
     project_id : CachedProjects, repo : {{}, {TestingRow}},
     fault : {"none", "repository"}, mode : {"full"}, claude_client : {FALSE}]

InitCachedSelection ==
    /\ IdleExcept({"cache", "select"})
    /\ workload = [t \in Tiers |-> IF t = "agent" THEN {CachedTask.body} ELSE {}]
    /\ probe = "no_url"
    /\ redis_client = Construct(probe)
    /\ server = [up |-> FALSE, data |-> {}]
    /\ response_cache = <<>>
    /\ embedding_cache = <<>>
    /\ agent_selection_cache = <<>>
    /\ hist = [born |-> [t \in Tiers |-> <<>>], used |-> [t \in Tiers |-> <<>>],
               streak |-> [t \in Tiers |-> {}]]
    /\ last = NoCall("init")
    /\ select_in \in CachedSelectionRequests
    /\ select_out = NoSelections

CachedSelectionNext ==
    \/ \E p \in CachedProjects : CallGetCachedAgentSelection(CachedTask.body, ProjectOf(p))
    \/ \E p \in CachedProjects, a \in CachedAgents :
          CallCacheAgentSelection(CachedTask.body, a, ProjectOf(p))
    \/ CallExecuteTask
    \/ Tick

SpecCachedSelection == InitCachedSelection /\ [][CachedSelectionNext]_vars

(***************************************************************************)
(* Learning checkpoints: IntelligentAgentRouter._record_agent_execution,   *)
(* _maybe_create_checkpoint and _create_learning_checkpoint, called one    *)
(* after the other on one connection.  The tables are agent_repository     *)
(* (its total_tasks_completed column), agent_execution_history (its rows   *)
(* counted per agent) and agent_learning_checkpoints.                      *)
(***************************************************************************)

CheckpointInterval == 10

\* SELECT COALESCE(MAX(checkpoint_version), 0) + 1 over every agent's rows:
\* a mutant of NextVersion.
NextVersionOfAnyAgent(rows, agent_id) ==
    LET versions == {rows[i].checkpoint_version : i \in 1..Len(rows)}
    IN  IF versions = {} THEN 1
        ELSE (CHOOSE v \in versions : \A w \in versions : w <= v) + 1

\* SELECT COALESCE(MAX(checkpoint_version), 0) + 1
\* FROM agent_learning_checkpoints WHERE agent_id = :1
NextVersion(rows, agent_id) ==
    LET versions == {rows[i].checkpoint_version :
                        i \in {j \in 1..Len(rows) : rows[j].agent_id = agent_id}}
    IN  IF versions = {} THEN 1
        ELSE (CHOOSE v \in versions : \A w \in versions : w <= v) + 1

\* _create_learning_checkpoint: the checkpoints table afterwards.
CreateLearningCheckpoint(rows, totals, agent_id) ==
    IF agent_id \notin DOMAIN totals THEN rows
    ELSE Append(rows, [agent_id |-> agent_id,
                       checkpoint_version |-> NextVersion(rows, agent_id),
                       total_tasks |-> totals[agent_id],
                       tasks_since_last_checkpoint |-> 10])

\* A mutant of MaybeCreateCheckpoint: a checkpoint after every task.
MaybeCreateCheckpointAlways(rows, totals, agent_id) ==
    IF agent_id \in DOMAIN totals /\ totals[agent_id] > 0
    THEN CreateLearningCheckpoint(rows, totals, agent_id)
    ELSE rows

\* _maybe_create_checkpoint: the checkpoints table afterwards.
MaybeCreateCheckpoint(rows, totals, agent_id) ==
    IF /\ agent_id \in DOMAIN totals
       /\ totals[agent_id] > 0
       /\ totals[agent_id] % CheckpointInterval = 0
    THEN CreateLearningCheckpoint(rows, totals, agent_id)
    ELSE rows

\* UPDATE agent_repository SET total_tasks_completed = total_tasks_completed + 1
\* WHERE id = :1
CountTask(totals, agent_id) ==
    IF agent_id \in DOMAIN totals THEN [totals EXCEPT ![agent_id] = @ + 1] ELSE totals

\* The agents of the repository, the ids executions are recorded for (3 is
\* no row of agent_repository), and the most calls made for one agent.
AgentIds == {1, 2}
RecordedIds == {1, 2, 3}
MaxTasks == 21

LearnInit ==
    /\ IdleBut("learn")
    /\ total_tasks_completed = [a \in AgentIds |-> 0]
    /\ execution_history = [a \in RecordedIds |-> 0]
    /\ checkpoints = <<>>

\* _record_agent_execution(agent_id, ...)
RecordAgentExecution(agent_id) ==
    /\ execution_history[agent_id] < MaxTasks
    /\ execution_history' = [execution_history EXCEPT ![agent_id] = @ + 1]
    /\ total_tasks_completed' = CountTask(total_tasks_completed, agent_id)
    /\ checkpoints' = MaybeCreateCheckpoint(checkpoints, total_tasks_completed', agent_id)
    /\ UNCHANGED <<keyVars, cacheVars, learnOthers>>

LearnNext == \E agent_id \in RecordedIds : RecordAgentExecution(agent_id)

LearnSpec == LearnInit /\ [][LearnNext]_vars

(***************************************************************************)
(* IntelligentAgentRouter.query_claude.  The conversation_history argument *)
(* is None or a list object the caller keeps: `given` tells which, `items` *)
(* is the list's content.                                                  *)
(***************************************************************************)

UserMessage(prompt) == [role |-> "user", content |-> prompt]

\* messages = conversation_history or []; messages.append(...): the list the
\* API call is given.
MessagesSent(history, prompt) ==
    (IF history.given /\ history.items # <<>> THEN history.items ELSE <<>>)
        \o <<UserMessage(prompt)>>

\* The caller's list after the call: `conversation_history or []` is the
\* caller's own list object when that list is not empty, and the append
\* goes to it.
HistoryAfter(history, prompt) ==
    IF history.given /\ history.items # <<>>
    THEN [history EXCEPT !.items = Append(@, UserMessage(prompt))]
    ELSE history

\* The histories a caller passes: None, or a list of up to MaxHistory
\* earlier messages.
MaxHistory == 2
EarlierMessages ==
    {[role |-> "user", content |-> "Previous message"],
     [role |-> "assistant", content |-> "Previous response"]}
Histories ==
    {[given |-> FALSE, items |-> <<>>]}
        \cup {[given |-> TRUE, items |-> items] :
                 items \in UNION {[1..n -> EarlierMessages] : n \in 0..MaxHistory}}

ClaudeInit ==
    /\ IdleExcept({"claude", "learn"})
    /\ total_tasks_completed = [a \in AgentIds |-> 0]
    /\ execution_history = [a \in RecordedIds |-> 0]
    /\ checkpoints = <<>>
    /\ claude_in \in [prompt : {"Follow up question", "Previous message"},
                      agent_id : {0, 1}, project_id : {"None", "p1"},
                      fault : {"none", "api"}, history : Histories]
    /\ conversation_history = claude_in.history
    /\ claude_call = [done |-> FALSE]

\* query_claude(prompt, agent_id, project_id, conversation_history=...): the
\* API call succeeds or raises; a successful call for an agent and a project
\* is recorded by _record_agent_execution.
CallQueryClaude ==
    /\ ~claude_call.done
    /\ conversation_history' = HistoryAfter(conversation_history, claude_in.prompt)
    /\ claude_call' = [done |-> TRUE,
                       messages |-> MessagesSent(conversation_history, claude_in.prompt),
                       error |-> claude_in.fault = "api"]
    /\ IF claude_in.fault = "none" /\ claude_in.agent_id # 0 /\ claude_in.project_id # "None"
       THEN /\ execution_history' = [execution_history EXCEPT ![claude_in.agent_id] = @ + 1]
            /\ total_tasks_completed' = CountTask(total_tasks_completed, claude_in.agent_id)
            /\ checkpoints' = MaybeCreateCheckpoint(checkpoints, total_tasks_completed',
                                                    claude_in.agent_id)
       ELSE UNCHANGED learnVars
    /\ UNCHANGED <<keyVars, cacheVars, claudeLearnOthers, claude_in>>

ClaudeNext == CallQueryClaude

ClaudeSpec == ClaudeInit /\ [][ClaudeNext]_vars

(***************************************************************************)
(* The conversation endpoints of api/app.py in lite mode: _conversations   *)
(* maps a session id to its messages.  Session ids are uuid4 strings; here *)
(* the n-th session created has id n, and 0 is an id no session ever has.  *)
(* A stored message is its role and content (its timestamp and metadata    *)
(* are stored with it and never read by the endpoints).                    *)
(***************************************************************************)

DefaultLimit == 50
DefaultOffset == 0

\* all_messages[offset:offset + limit]
Slice(all_messages, offset, limit) ==
    SubSeq(all_messages, offset + 1,
           IF offset + limit < Len(all_messages) THEN offset + limit ELSE Len(all_messages))

\* The `messages` of get_conversation_messages' response in lite mode.
GetConversationMessages(convs, session_id, offset, limit) ==
    IF session_id \in DOMAIN convs
    THEN Slice(convs[session_id], offset, limit)
    ELSE <<>>

\* A mutant of AddConversationMessage: the message is put in front.
AddConversationMessageInFront(convs, session_id, message) ==
    IF session_id \in DOMAIN convs
    THEN [convs EXCEPT ![session_id] = <<message>> \o @]
    ELSE convs

\* _conversations after add_conversation_message in lite mode.
AddConversationMessage(convs, session_id, message) ==
    IF session_id \in DOMAIN convs
    THEN [convs EXCEPT ![session_id] = Append(@, message)]
    ELSE convs

\* _conversations after create_conversation stored the session
CreateConversation(convs, session_id) ==
    [s \in DOMAIN convs \cup {session_id} |-> IF s = session_id THEN <<>> ELSE convs[s]]

\* _conversations after delete_conversation
DeleteConversation(convs, session_id) ==
    [s \in DOMAIN convs \ {session_id} |-> convs[s]]

MaxSessions == 2
MaxMessages == 2
ChatMessages == [role : {"user", "assistant"}, content : {"hello"}]
Offsets == {DefaultOffset, 1}
Limits == {DefaultLimit, 1}

\* The session ids a client can name: the id no session has, and the ids of
\* the sessions created so far.
KnownIds == 0..chat.created

ChatInit ==
    /\ IdleBut("chat")
    /\ conversations = <<>>
    /\ chat = [created |-> 0, acked |-> [s \in 0..0 |-> <<>>], last |-> [op |-> "none"]]

\* POST /conversations
CallCreateConversation ==
    /\ chat.created < MaxSessions
    /\ LET session_id == chat.created + 1
       IN  /\ conversations' = CreateConversation(conversations, session_id)
           /\ chat' = [created |-> session_id,
                       acked |-> [s \in 0..session_id |->
                                     IF s = session_id THEN <<>> ELSE chat.acked[s]],
                       last |-> [op |-> "create", session |-> session_id]]
    /\ UNCHANGED <<keyVars, cacheVars, chatOthers>>

\* POST /conversations/<session_id>/messages: the response always carries a
\* message_id and a timestamp.
CallAddConversationMessage(session_id, message) ==
    /\ Len(chat.acked[session_id]) < MaxMessages
    /\ conversations' = AddConversationMessage(conversations, session_id, message)
    /\ chat' = [chat EXCEPT !.acked[session_id] = Append(@, message),
                            !.last = [op |-> "add", session |-> session_id]]
    /\ UNCHANGED <<keyVars, cacheVars, chatOthers>>

\* GET /conversations/<session_id>/messages?offset=..&limit=..
CallGetConversationMessages(session_id, offset, limit) ==
    /\ chat' = [chat EXCEPT !.last =
                   [op |-> "get", session |-> session_id, offset |-> offset,
                    limit |-> limit,
                    messages |-> GetConversationMessages(conversations, session_id,
                                                         offset, limit)]]
    /\ UNCHANGED <<keyVars, cacheVars, chatOthers, conversations>>

\* DELETE /conversations/<session_id>
CallDeleteConversation(session_id) ==
    /\ conversations' = DeleteConversation(conversations, session_id)
    /\ chat' = [chat EXCEPT !.acked[session_id] = <<>>,
                            !.last = [op |-> "delete", session |-> session_id]]
    /\ UNCHANGED <<keyVars, cacheVars, chatOthers>>

ChatNext ==
    \/ CallCreateConversation
    \/ \E s \in KnownIds, message \in ChatMessages : CallAddConversationMessage(s, message)
    \/ \E s \in KnownIds, offset \in Offsets, limit \in Limits :
          CallGetConversationMessages(s, offset, limit)
    \/ \E s \in KnownIds : CallDeleteConversation(s)

ChatSpec == ChatInit /\ [][ChatNext]_vars

(***************************************************************************)
(* Tool chains: execute_tool_chain and get_chain_status of api/app.py.     *)
(* The handler runs the steps one after the other while other requests may *)
(* read the chain's status record, so the handler is taken one loop        *)
(* iteration at a time.  A step of the request is given by its step_id     *)
(* ("None" when the key is missing) and by whether executing it raises;    *)
(* the execution written in this version is a placeholder that does not    *)
(* raise, the handler's except branch is there for the execution proper.   *)
(***************************************************************************)

\* step.get('step_id', f'step_{i}'), i counted from 0
StepId(step, i) == IF step.step_id = "None" THEN "step_" \o ToString(i - 1) ELSE step.step_id

\* The status record execute_tool_chain stores before it runs the steps.
InitialChainStatus(steps) ==
    [status |-> "running",
     current_step |-> steps[1].step_id,
     steps |-> [i \in 1..Len(steps) |->
                   [step_id |-> StepId(steps[i], i), status |-> "pending", result |-> "None"]],
     completed_at |-> "None"]

\* A mutant of RunChainStep: the steps after a failed one are left as they are.
RunChainStepNoSkip(chain, steps, i) ==
    [chain EXCEPT !.current_step = StepId(steps[i], i),
                  !.steps[i] = IF steps[i].raises
                               THEN [@ EXCEPT !.status = "failed", !.result = "error"]
                               ELSE [@ EXCEPT !.status = "completed", !.result = "success"]]

\* One iteration of the loop over the steps: the status record afterwards.
RunChainStep(chain, steps, i) ==
    [chain EXCEPT !.current_step = StepId(steps[i], i),
                  !.steps = [j \in 1..Len(steps) |->
                      IF j = i
                      THEN IF steps[i].raises
                           THEN [@[j] EXCEPT !.status = "failed", !.result = "error"]
                           ELSE [@[j] EXCEPT !.status = "completed", !.result = "success"]
                      ELSE IF j > i /\ steps[i].raises
                           THEN [@[j] EXCEPT !.status = "skipped"]
                           ELSE @[j]]]

\* The lines after the loop.
FinishChainStatus(chain, all_success) ==
    [chain EXCEPT !.status = IF all_success THEN "completed" ELSE "failed",
                  !.completed_at = "time",
                  !.current_step = "None"]

MaxSteps == 3
StepRequests == [step_id : {"None", "build"}, raises : BOOLEAN]
ChainRequests == UNION {[1..n -> StepRequests] : n \in 0..MaxSteps}

ChainInit ==
    /\ IdleBut("chain")
    /\ tool_chains = <<>>
    /\ chain_run \in [pc : {"idle"}, steps : ChainRequests, i : {0}, all_success : {TRUE},
                      response : {"None"}, seen : {"None"}]

\* POST /tools/chain, up to the loop: a request without steps is answered
\* 400, any other gets its status record.
CallExecuteToolChain ==
    /\ chain_run.pc = "idle"
    /\ IF chain_run.steps = <<>>
       THEN /\ chain_run' = [chain_run EXCEPT !.pc = "returned", !.response = "400"]
            /\ UNCHANGED tool_chains
       ELSE /\ tool_chains' = [e \in {"e1"} |-> InitialChainStatus(chain_run.steps)]
            /\ chain_run' = [chain_run EXCEPT !.pc = "loop", !.i = 1]
    /\ UNCHANGED <<keyVars, cacheVars, chainOthers>>

\* The loop body for step i, from the step being marked 'running' to its
\* result being stored; a step that raises ends the loop.
ExecuteChainStep ==
    /\ chain_run.pc = "loop"
    /\ LET i == chain_run.i
           failed == chain_run.steps[i].raises
       IN  /\ tool_chains' = [tool_chains EXCEPT
                                 !["e1"] = RunChainStep(@, chain_run.steps, i)]
           /\ chain_run' = [chain_run EXCEPT
                               !.all_success = IF failed THEN FALSE ELSE @,
                               !.i = i + 1,
                               !.pc = IF failed \/ i = Len(chain_run.steps)
                                      THEN "finish" ELSE "loop"]
    /\ UNCHANGED <<keyVars, cacheVars, chainOthers>>

\* The lines after the loop, and the response.
ReturnFromToolChain ==
    /\ chain_run.pc = "finish"
    /\ tool_chains' = [tool_chains EXCEPT
                          !["e1"] = FinishChainStatus(@, chain_run.all_success)]
    /\ chain_run' = [chain_run EXCEPT !.pc = "returned",
                                      !.response = tool_chains'["e1"].status]
    /\ UNCHANGED <<keyVars, cacheVars, chainOthers>>

\* GET /tools/chain/<execution_id>, from another request
CallGetChainStatus ==
    /\ chain_run' = [chain_run EXCEPT
                        !.seen = IF "e1" \in DOMAIN tool_chains
                                 THEN tool_chains["e1"].status ELSE "404"]
    /\ UNCHANGED <<keyVars, cacheVars, chainOthers, tool_chains>>

ChainNext ==
    \/ CallExecuteToolChain
    \/ ExecuteChainStep
    \/ ReturnFromToolChain
    \/ CallGetChainStatus

ChainSpec == ChainInit /\ [][ChainNext]_vars

(***************************************************************************)
(* Properties.                                                             *)
(***************************************************************************)

Maxsize(tier) ==
    CASE tier = "response" -> ResponseMaxsize
      [] tier = "embedding" -> EmbeddingMaxsize
      [] tier = "agent" -> AgentMaxsize

\* len(cache): the entries a tier holds that have not expired.
Size(tier) == Cardinality(ResidentKeys(tier, TierCache(tier), Clock))

\* A context as the mapping it is: None, or its set of key/value pairs.
Mapping(ctx) == [present |-> ctx.present, pairs |-> {ctx.items[i] : i \in 1..Len(ctx.items)}]

BothDerived == out1 # <<>> /\ out2 # <<>>

\* C1: in each tier, a get that immediately follows a put of the same key
\* returns the value that was put, with or without a backing store.
C1_RoundTrip ==
    (last.op = "get" /\ last.prev.op = "put") => last.ret = last.prev.val

\* A get on the response tier of an instance with a backing store, right
\* after a put of that key, has returned the value put.
C1_Witness ==
    /\ last.op = "get" /\ last.tier = "response" /\ last.prev.op = "put"
    /\ redis_client = "client" /\ last.ret = "vSet"

\* C2: _make_key gives the same key for the same text with contexts holding
\* the same key/value pairs, whatever their insertion order (and so for the
\* same arguments twice).
C2_KeyIgnoresInsertionOrder ==
    (BothDerived /\ in1[1] = in2[1] /\ Mapping(in1[2]) = Mapping(in2[2]))
        => out1 = out2

\* Two contexts with the same two items in opposite orders got one key.
C2_Witness ==
    /\ BothDerived /\ in1[1] = in2[1] /\ Mapping(in1[2]) = Mapping(in2[2])
    /\ Len(in1[2].items) = 2 /\ in1[2].items # in2[2].items
    /\ out1 = out2

\* C3: two different (text, context) pairs never derive the same cache key,
\* an absent context and an empty mapping being different contexts.
C3_DifferentPairsDifferentKeys ==
    (BothDerived /\ (in1[1] # in2[1] \/ Mapping(in1[2]) # Mapping(in2[2])))
        => out1 # out2

\* C4: no tier ever holds more resident entries than its capacity, and once
\* capacity+1 distinct keys have been put into a tier it holds exactly capacity.
C4_CapacityLaw ==
    \A t \in Tiers :
        /\ Size(t) <= Maxsize(t)
        /\ Cardinality(hist.streak[t]) > Maxsize(t) => Size(t) = Maxsize(t)

\* A put has just taken a tier past capacity+1 distinct keys and evicted an entry.
C4_Witness ==
    /\ last.op = "put" /\ last.evicted # {}
    /\ Cardinality(hist.streak[last.tier]) > Maxsize(last.tier)
    /\ Size(last.tier) = Maxsize(last.tier)

\* The entries a lookup finds in a tier, without their order.
Contents(tier) ==
    LET c == TierCache(tier)
        live == IF tier = "embedding" THEN c ELSE TtlExpire(c, Clock)
    IN  {live[i] : i \in 1..Len(live)}

\* The key a tier gives up first when a put needs room, if it holds any.
Victim(tier) ==
    LET c == TierCache(tier)
        live == IF tier = "embedding" THEN c ELSE TtlExpire(c, Clock)
    IN  IF live = <<>> THEN <<>> ELSE Head(live).key

\* This step is a put of a new key into a response or agent-selection tier
\* that is full and holds no expired entry.
EvictingPut(tier) ==
    /\ last'.op = "put"
    /\ last'.tier = tier
    /\ last'.key \notin ResidentKeys(tier, TierCache(tier), Clock)
    /\ Size(tier) = Maxsize(tier)
    /\ Len(TierCache(tier)) = Size(tier)

\* C5 as claimed: such a put evicts the entry that was inserted earliest,
\* whichever entries were read since.
C5_EvictsEarliestInserted ==
    [][\A t \in {"response", "agent"} :
          EvictingPut(t) => last'.evicted = {Head(hist.born[t])}]_vars

\* C5 as amended: such a put evicts the least recently used entry, the one
\* whose latest put or successful get is the earliest, whatever time its
\* entries have left.
C5_EvictsLeastRecentlyUsed ==
    [][\A t \in {"response", "agent"} :
          EvictingPut(t) => last'.evicted = {Head(hist.used[t])}]_vars

\* A put into the full agent-selection tier has evicted an entry and kept one
\* that expires sooner than the entry it stored.
C5_Witness ==
    /\ last.op = "put" /\ last.tier = "agent" /\ last.evicted # {}
    /\ Len(agent_selection_cache) = AgentMaxsize
    /\ agent_selection_cache[1].expires < AgentTtl
    /\ agent_selection_cache[1].expires > Clock

\* C6: a get that follows a put whose time-to-live has already elapsed (a
\* put with ttl=0, then a get at once) returns None.
C6_TtlLaw ==
    (last.op = "get" /\ last.tier = "response" /\ last.prev.op = "put"
        /\ last.prev.ttl <= 0)
        => last.ret = "None"

\* C7: after a failed probe the instance reports no backing store, and no
\* call raises or reaches the backing store.
C7_FailedProbeFallsBack ==
    probe \in FailedProbes =>
        /\ ~GetStats(response_cache, embedding_cache, agent_selection_cache,
                     redis_client, Clock).redis_connected
        /\ ~last.raised
        /\ last.calls = 0

\* C8: no call on the response tier raises, and a get that follows a put
\* whose backing-store write failed returns the value put.
C8_StoreFailuresSwallowed ==
    /\ last.tier = "response" => ~last.raised
    /\ (last.op = "get" /\ last.tier = "response" /\ last.prev.op = "put"
            /\ last.prev.swallowed)
           => last.ret = last.prev.val

\* A get has returned a value whose backing-store write had just failed.
C8_Witness ==
    /\ last.op = "get" /\ last.tier = "response" /\ last.prev.op = "put"
    /\ last.prev.swallowed /\ last.prev.val = "v1" /\ last.ret = "v1"

\* With a backing store: a get that found the key nowhere has asked the
\* store; a get that was answered by the store has left the value resident in
\* the tier, and a get right after it does not ask the store again; a put
\* of a value that can be serialized has written to the store.
ReadThrough(tier) ==
    /\ (last.op = "get" /\ last.tier = tier /\ last.ret = "None") => last.calls = 1
    /\ (last.op = "get" /\ last.tier = tier /\ last.calls = 1 /\ last.ret # "None")
           => \E e \in Contents(tier) : e.key = last.key /\ e.value = last.ret
    /\ (last.op = "get" /\ last.tier = tier /\ last.prev.op = "get"
            /\ last.prev.val # "None")
           => last.calls = 0
    /\ (last.op = "put" /\ last.tier = tier /\ Serializable(last.arg)) => last.calls = 1

\* C9 as claimed: every tier reads through to, and writes to, the backing store.
C9_ReadThroughEveryTier ==
    redis_client # "None" => \A t \in Tiers : ReadThrough(t)

\* C9 as amended: the response tier reads through to and writes to the
\* backing store; the embedding and agent-selection tiers never call it.
C9_ReadThroughResponseTierOnly ==
    /\ redis_client # "None" => ReadThrough("response")
    /\ last.tier \in {"embedding", "agent"} => last.calls = 0

\* A get on the response tier was answered by the backing store and the
\* value is now resident in the tier.
C9_Witness ==
    /\ last.op = "get" /\ last.tier = "response" /\ last.calls = 1
    /\ last.ret = "v1"
    /\ \E e \in Contents("response") : e.key = last.key /\ e.value = "v1"

\* This step is a get of a key that is resident and unexpired.
HitGet(tier) ==
    /\ last'.op = "get"
    /\ last'.tier = tier
    /\ last'.key \in ResidentKeys(tier, TierCache(tier), Clock)

\* C10 as claimed: a get of a resident key changes nothing: each tier holds
\* the same entries and would give up the same entry first.
C10_GetChangesNothing ==
    [][\A tier \in Tiers :
          HitGet(tier) => \A t \in Tiers : /\ Contents(t)' = Contents(t)
                                           /\ Victim(t)' = Victim(t)]_vars

\* C10 as amended: a get of a resident key returns the value stored, the
\* same as the get just before it if that was a get of this key; it leaves
\* the entries of every tier and the order of the other tiers as they were,
\* and makes the key read the most recently used of its tier, the other
\* keys keeping their order.
C10_GetOnlyMarksRecentUse ==
    [][\A tier \in Tiers :
          HitGet(tier) =>
              /\ last'.ret = ValueOf(TierCache(tier), last'.key)
              /\ last'.prev.op = "get" => last'.ret = last'.prev.val
              /\ \A t \in Tiers : Contents(t)' = Contents(t)
              /\ \A t \in Tiers \ {tier} : TierCache(t)' = TierCache(t)
              /\ TierCache(tier)' = MoveToEnd(TierCache(tier), last'.key)]_vars

\* A get of a resident key of the full embedding tier has made that key,
\* which was not the latest inserted, the most recently used.
C10_Witness ==
    /\ last.op = "get" /\ last.tier = "embedding" /\ last.ret # "None"
    /\ Len(embedding_cache) = EmbeddingMaxsize
    /\ embedding_cache[Len(embedding_cache)].key = last.key
    /\ hist.born["embedding"][Len(hist.born["embedding"])] # last.key

\* The backing store is connected: a client was built and the server answers.
StoreConnected == redis_client # "None" /\ server.up

\* C11: whenever get_stats has just been called, each tier's reported size
\* is the number of entries resident in the tier's in-process store, and
\* redis_connected is true exactly when the backing store is connected at
\* that time, also after the connection was lost.
C11_StatsReflectStoreAndConnection ==
    last.op = "stats" =>
        /\ last.stats.response_cache.size = Size("response")
        /\ last.stats.embedding_cache.size = Size("embedding")
        /\ last.stats.agent_cache.size = Size("agent")
        /\ last.stats.redis_connected = StoreConnected

\* C12: under any interleaving of the steps of get_cached_response and
\* cache_response calls of several callers and of time passing, a
\* get_cached_response that has returned did not raise, and returned None or
\* a value that was put for its key.
C12_ConcurrentGetNeverRaises ==
    \A c \in Callers :
        (callers[c].pc = "returned" /\ callers[c].op = "get") =>
            /\ ~callers[c].raised
            /\ \/ callers[c].ret = "None"
               \/ <<callers[c].key, callers[c].ret>> \in putlog

\* C13: a put or get on one tier leaves the other two tiers exactly as they
\* were (entries, size and order of use), also when the response tier and
\* the agent-selection tier hold an entry under the same key.
C13_TiersIndependent ==
    [][\A t \in Tiers :
          (last'.tier = t /\ last'.op \in {"get", "put"}) =>
              \A u \in Tiers \ {t} : TierCache(u)' = TierCache(u)]_vars

\* A selection was just put in the agent-selection tier while the response
\* tier holds a different value under the same key.
C13_Witness ==
    /\ last.op = "put"
    /\ last.tier = "agent"
    /\ TtlContains(response_cache, last.key, Clock)
    /\ ValueOf(response_cache, last.key) # last.arg
    /\ embedding_cache # <<>>

\* Two tokens are the same text when case is ignored.
SameIgnoringCase(a, b) ==
    \/ a = b
    \/ {a, b} = {"JOIN", "join"}
    \/ {a, b} = {"Debug", "debug"}
    \/ {a, b} = {"Security", "security"}
    \/ {a, b} = {"SQL", "sql"}
    \/ {a, b} = {"My", "my"}
    \/ {a, b} = {"Team", "team"}
    \/ {a, b} = {"E2E", "e2e"}

\* kw occurs in s as a contiguous run when case is ignored.
ContainsIgnoringCase(s, kw) ==
    \E i \in 0..(Len(s) - Len(kw)) :
        \A j \in 1..Len(kw) : SameIgnoringCase(s[i + j], kw[j])

\* The number of the keywords that occur in the classified text.
Count(keywords) ==
    Cardinality({kw \in keywords : ContainsIgnoringCase(classify_in.body, kw)})

HasAnalyticsTrigger == Count(OracleKeywords) >= 1

Routed(by, route) == classify_out[by] \in {"none", route}

\* C14 as claimed: a text with an analytics trigger phrase is routed to
\* 'oracle' by the classifier, by classify_query_complexity and by
\* classify_query alike.
C14_AnalyticsRuleWinsFirst ==
    HasAnalyticsTrigger => Routed("router", "oracle") /\ Routed("app", "oracle")

\* C14: classify_query_complexity returns 'oracle' for every text with an
\* analytics trigger phrase (case ignored), whatever else the text holds
\* and however long it is; classify_query has no analytics rule and never
\* returns 'oracle'.
C14_AnalyticsRuleWinsInRouterOnly ==
    /\ HasAnalyticsTrigger => Routed("router", "oracle")
    /\ classify_out.app # "oracle"

\* A long text with a trigger phrase and two complex keywords has been
\* classified by both.
C14_Witness ==
    /\ HasAnalyticsTrigger
    /\ Count(RouterComplexKeywords) >= RouterComplexThreshold
    /\ WordCount(classify_in) >= RouterLengthThreshold
    /\ classify_out.router = "oracle"
    /\ classify_out.app = "claude"

\* C15: a text with no analytics trigger phrase whose complex keyword count
\* meets the complex threshold (2 in classify_query_complexity, 1 in
\* classify_query) is routed to 'claude', whatever its simple keyword count
\* and its length.
C15_ComplexRulePrecedesSimple ==
    ~HasAnalyticsTrigger =>
        /\ Count(RouterComplexKeywords) >= RouterComplexThreshold
              => Routed("router", "claude")
        /\ Count(AppComplexKeywords) >= AppComplexThreshold
              => Routed("app", "claude")

\* A short text that meets both classifiers' complex and simple thresholds
\* has been classified by both.
C15_Witness ==
    /\ ~HasAnalyticsTrigger
    /\ Count(RouterComplexKeywords) >= RouterComplexThreshold
    /\ Count(RouterSimpleKeywords) >= RouterSimpleThreshold
    /\ Count(AppSimpleKeywords) >= AppSimpleThreshold
    /\ WordCount(classify_in) < AppLengthThreshold
    /\ classify_out.router = "claude"
    /\ classify_out.app = "claude"

\* None of classify_query_complexity's rules fires on the text; none of
\* classify_query's does.
NoRouterRule ==
    /\ ~HasAnalyticsTrigger
    /\ Count(RouterComplexKeywords) < RouterComplexThreshold
    /\ Count(RouterSimpleKeywords) < RouterSimpleThreshold
NoAppRule ==
    /\ Count(AppComplexKeywords) < AppComplexThreshold
    /\ Count(AppSimpleKeywords) < AppSimpleThreshold

Qualifying ==
    IF select_in.agent_type \in {"None", ""}
    THEN select_in.repo
    ELSE {r \in select_in.repo : r.agent_type = select_in.agent_type}

\* A success rate as a number, a missing one below every other.
RateRank(row) == IF row.success_rate.null THEN -1 ELSE row.success_rate.v

\* Row a is not after row b in the order: smaller distance, then higher
\* success rate, then higher routing priority.
NotAfter(a, b) ==
    \/ a.distance < b.distance
    \/ a.distance = b.distance /\ RateRank(a) > RateRank(b)
    \/ a.distance = b.distance /\ RateRank(a) = RateRank(b)
          /\ a.routing_priority >= b.routing_priority

C18_SemanticFailuresFallBack ==
    select_in.fault \in {"embedding", "repository"} =>
        /\ select_out.find_best.done =>
              /\ ~select_out.find_best.raised
              /\ select_out.find_best.ret = NoAgent
        /\ (select_out.execute.done /\ select_in.mode = "full"
                /\ select_out.execute.route = "claude") =>
              /\ select_out.execute.error = "None"
              /\ select_out.execute.agent =
                    FindAgentForTask(select_in.task, select_in.agent_type)

\* The agent_type argument is the type of one of the default agents.
KnownType == \E i \in 1..Len(DefaultAgents) : DefaultAgents[i].type = select_in.agent_type

\* C19: find_agent_for_task always returns a default agent; given the type
\* of a default agent it returns the agent of that type whatever the task
\* text holds, and given a type no default agent has it returns what it
\* returns with no type given.
C19_TypeHintOverridesKeywords ==
    select_out.find_agent.done =>
        /\ select_out.find_agent.ret.kind = "default"
        /\ \E i \in 1..Len(DefaultAgents) :
              /\ select_out.find_agent.ret.agent_id = DefaultAgents[i].id
              /\ select_out.find_agent.ret.type = DefaultAgents[i].type
        /\ KnownType => select_out.find_agent.ret.type = select_in.agent_type
        /\ ~KnownType =>
              select_out.find_agent.ret = FindAgentForTask(select_in.task, "None")

\* The keyword sets in their fixed order; the agent of set i is default
\* agent i.
KeywordSetsInOrder ==
    <<ReviewKeywords, RefactorKeywords, TestKeywords, ArchitectureKeywords, DebugKeywords>>

\* The sets the task text matches, case ignored.
MatchedSets ==
    {i \in 1..Len(KeywordSetsInOrder) :
        \E kw \in KeywordSetsInOrder[i] : ContainsIgnoringCase(select_in.task.body, kw)}

\* A task that holds the 'security' keyword was given with the type of
\* another default agent, and that agent came back.
C19_Witness ==
    /\ select_out.find_agent.done
    /\ select_in.agent_type = "devops"
    /\ 1 \in MatchedSets
    /\ select_out.find_agent.ret.type = "devops"

\* C20: with no usable type hint, find_agent_for_task returns the agent of
\* the first keyword set, in the fixed order, that the task text matches,
\* and the review specialist (agent 1) when it matches none.
C20_KeywordPriorityOrder ==
    (select_out.find_agent.done /\ ~KnownType) =>
        select_out.find_agent.ret.agent_id =
            IF MatchedSets = {} THEN 1
            ELSE CHOOSE i \in MatchedSets : \A j \in MatchedSets : i <= j

\* A task matching the refactor set and the bug/debug set, with a type no
\* agent has, got the refactoring agent.
C20_Witness ==
    /\ select_out.find_agent.done
    /\ select_in.agent_type = "nonexistent"
    /\ MatchedSets = {2, 5}
    /\ select_out.find_agent.ret.agent_id = 2

\* One of the strings of the list mentions kw when case is ignored.
Mentions(strings, kw) ==
    \E i \in 1..Len(strings) : ContainsIgnoringCase(strings[i], kw)

\* The classification rule for the essential class, on the request made.
EssentialByRule(name) ==
    \/ name \in {"filesystem", "github", "memory"}
    \/ /\ name = "postgresql"
       /\ Mentions(tools_in.tech_stack, <<"postgres">>) \/ Mentions(tools_in.tech_stack, <<"sql">>)
    \/ /\ name = "slack"
       /\ \/ Mentions(tools_in.requirements, <<"team">>)
          \/ Mentions(tools_in.requirements, <<"collaboration">>)
    \/ /\ name = "puppeteer"
       /\ Mentions(tools_in.requirements, <<"testing">>) \/ Mentions(tools_in.requirements, <<"e2e">>)
    \/ name = "brave-search" /\ Mentions(tools_in.requirements, <<"research">>)

NamesIn(list) == {list[i].name : i \in 1..Len(list)}

\* The candidate is not essential and nearer than 0.5.
Qualifies(c) == ~EssentialByRule(c.name) /\ c.distance < 50

\* The number of candidates before the i-th that qualify.
QualifyingBefore(i) ==
    Cardinality({j \in 1..(i - 1) : Qualifies(tools_out.candidates[j])})

\* C21 as claimed: every candidate is in exactly one class: essential when
\* its name is always essential or a stack/requirement rule fires, otherwise
\* recommended when its distance is below 0.5, otherwise in neither list.
C21_OneClassPerCandidate ==
    tools_out.done =>
        \A i \in 1..Len(tools_out.candidates) :
            LET c == tools_out.candidates[i]
            IN  /\ c.name \in NamesIn(tools_out.essential) <=> EssentialByRule(c.name)
                /\ c.name \in NamesIn(tools_out.recommended) <=> Qualifies(c)

\* C21 amended: every candidate is in exactly one class: essential when its
\* name is always essential or a stack/requirement rule fires; otherwise
\* recommended when its distance is below 0.5 and fewer than five such
\* candidates precede it; otherwise in neither list.  No tool is in both
\* lists and a non-essential tool at distance 0.5 or more is in neither.
C21_OneClassPerCandidateUnderCap ==
    tools_out.done =>
        /\ NamesIn(tools_out.essential) \cap NamesIn(tools_out.recommended) = {}
        /\ \A i \in 1..Len(tools_out.candidates) :
            LET c == tools_out.candidates[i]
            IN  /\ c.name \in NamesIn(tools_out.essential) <=> EssentialByRule(c.name)
                /\ c.name \in NamesIn(tools_out.recommended)
                       <=> (Qualifies(c) /\ QualifyingBefore(i) < 5)
                /\ (~EssentialByRule(c.name) /\ c.distance >= 50) =>
                       c.name \notin NamesIn(tools_out.essential) \cup NamesIn(tools_out.recommended)

\* A result with an essential tool by a stack rule, recommended tools, a
\* non-essential tool at exactly 0.5 and a qualifying tool beyond the cap.
C21_Witness ==
    /\ tools_out.done
    /\ "postgresql" \in NamesIn(tools_out.essential)
    /\ Len(tools_out.recommended) = 5
    /\ \E i \in 1..Len(tools_out.candidates) :
           /\ tools_out.candidates[i].name = "puppeteer"
           /\ tools_out.candidates[i].distance = 50
           /\ ~EssentialByRule("puppeteer")
    /\ \E i \in 1..Len(tools_out.candidates) :
           /\ Qualifies(tools_out.candidates[i])
           /\ tools_out.candidates[i].name \notin NamesIn(tools_out.recommended)

\* The registry holds the server, with a reliability score the query accepts.
Registered(name) ==
    \E row \in tools_in.registry : row.name = name /\ row.reliability_score > 80

\* C22: whenever the registry contains filesystem, github and memory, the
\* essential list of the result contains all three, whatever their distance
\* and however many other tools the registry holds.  (Stated for servers
\* whose reliability score passes the query's filter.)
C22_AlwaysEssentialReported ==
    (/\ tools_out.done
     /\ \A name \in {"filesystem", "github", "memory"} : Registered(name))
        => {"filesystem", "github", "memory"} \subseteq NamesIn(tools_out.essential)

\* The candidates that qualify and are not in the recommended list.
LeftOut ==
    {i \in 1..Len(tools_out.candidates) :
        /\ Qualifies(tools_out.candidates[i])
        /\ tools_out.candidates[i].name \notin NamesIn(tools_out.recommended)}

\* C23: the recommended list has at most 5 entries, is in ascending order of
\* distance, and consists of the nearest non-essential candidates nearer
\* than 0.5: none is left out while the list is short of 5, and none that is
\* left out is nearer than one that is listed.
C23_RecommendedCappedAndOrdered ==
    tools_out.done =>
        LET rec == tools_out.recommended
        IN  /\ Len(rec) <= 5
            /\ \A i \in 1..Len(rec), j \in 1..Len(rec) :
                   i < j => rec[i].distance <= rec[j].distance
            /\ \A i \in 1..Len(rec) :
                   \E k \in 1..Len(tools_out.candidates) :
                       /\ tools_out.candidates[k].name = rec[i].name
                       /\ tools_out.candidates[k].distance = rec[i].distance
                       /\ Qualifies(tools_out.candidates[k])
            /\ LeftOut # {} => Len(rec) = 5
            /\ \A k \in LeftOut, i \in 1..Len(rec) :
                   rec[i].distance <= tools_out.candidates[k].distance

\* A result whose recommended list is full, at five different distances,
\* with a qualifying candidate left out and an essential one nearer than
\* the last recommended.
C23_Witness ==
    /\ tools_out.done
    /\ Len(tools_out.recommended) = 5
    /\ tools_out.recommended[1].distance < tools_out.recommended[5].distance
    /\ LeftOut # {}
    /\ \E i \in 1..Len(tools_out.essential) :
           tools_out.essential[i].distance < tools_out.recommended[5].distance

\* The agent-selection tier's key for the request: (task, project_id).
SelectionKey == MakeKey(select_in.task.body, ProjectCtx(ProjectOf(select_in.project_id)))

\* C24: when execute_task selects an agent, an entry resident in the
\* agent-selection tier under (task, project_id) is the agent used, whatever
\* the repository would answer; and an agent the repository query selected
\* is resident in that tier under the same key afterwards.
C24_SelectionCacheConsultedFirst ==
    [][(~select_out.execute.done /\ select_out'.execute.done) =>
          /\ TtlContains(agent_selection_cache, SelectionKey, Clock) =>
                /\ select_out'.execute.status = 200
                /\ select_out'.execute.agent = ValueOf(agent_selection_cache, SelectionKey)
          /\ (/\ ~TtlContains(agent_selection_cache, SelectionKey, Clock)
              /\ select_out'.execute.status = 200
              /\ select_out'.execute.agent.kind = "repository") =>
                /\ TtlContains(agent_selection_cache', SelectionKey, Clock)
                /\ ValueOf(agent_selection_cache', SelectionKey) = select_out'.execute.agent]_vars

BothClassified == classify_out.router # "none" /\ classify_out.app # "none"

\* C25 as claimed: on every text whose complex-task keyword count is 0 or at
\* least 2 (in the vocabulary of either classifier), classify_query_complexity
\* and classify_query return the same route.
C25_SameRouteApartFromComplexThreshold ==
    (/\ BothClassified
     /\ Count(RouterComplexKeywords) # 1
     /\ Count(AppComplexKeywords) # 1)
        => classify_out.router = classify_out.app

\* C25 amended: the two classifiers return the same route on every text
\* without an analytics trigger phrase that holds at least two complex
\* keywords of the router's vocabulary and one of classify_query's (both
\* 'claude'), or holds no complex keyword of either and has fewer than 15
\* words (both 'ollama'); on a text with an analytics trigger phrase only
\* classify_query_complexity answers 'oracle'.
C25_SameRouteWhereRulesCoincide ==
    BothClassified =>
        /\ (/\ ~HasAnalyticsTrigger
            /\ Count(RouterComplexKeywords) >= 2
            /\ Count(AppComplexKeywords) >= 1)
               => classify_out.router = "claude" /\ classify_out.app = "claude"
        /\ (/\ ~HasAnalyticsTrigger
            /\ Count(RouterComplexKeywords) = 0
            /\ Count(AppComplexKeywords) = 0
            /\ WordCount(classify_in) < 15)
               => classify_out.router = "ollama" /\ classify_out.app = "ollama"
        /\ HasAnalyticsTrigger
               => classify_out.router = "oracle" /\ classify_out.app # "oracle"

\* Both classifiers have classified a text of two complex keywords, one of
\* them typed with a capital, and no analytics trigger.
C25_Witness ==
    /\ BothClassified
    /\ ~HasAnalyticsTrigger
    /\ Count(RouterComplexKeywords) = 2
    /\ Count(AppComplexKeywords) = 2
    /\ Contains(classify_in.body, <<"Debug">>)
    /\ classify_out.router = classify_out.app

\* The checkpoints of one agent, in the order they were created.
CheckpointsOf(agent_id) == SelectSeq(checkpoints, LAMBDA row : row.agent_id = agent_id)

\* C26: after n calls of _record_agent_execution for an agent that started
\* with counter 0 and no checkpoints, exactly n \div 10 checkpoints exist for
\* it, numbered 1, 2, ... in the order of creation, the k-th taken when the
\* counter stood at 10 * k.
C26_CheckpointEveryTenTasks ==
    \A agent_id \in DOMAIN total_tasks_completed :
        LET n == execution_history[agent_id]
            mine == CheckpointsOf(agent_id)
        IN  /\ total_tasks_completed[agent_id] = n
            /\ Len(mine) = n \div 10
            /\ \A k \in 1..Len(mine) :
                   /\ mine[k].checkpoint_version = k
                   /\ mine[k].total_tasks = 10 * k

\* Agent 1 has its second checkpoint and agent 2 its first, created between
\* the two of agent 1, and a further task has been recorded for agent 1.
C26_Witness ==
    /\ total_tasks_completed # <<>>
    /\ execution_history[1] = 21
    /\ Len(CheckpointsOf(1)) = 2
    /\ Len(checkpoints) = 3
    /\ checkpoints[2].agent_id = 2

\* The route the classifier of the request's mode returns for its task.
ClassifiedRoute ==
    IF select_in.mode = "full"
    THEN ClassifyQueryComplexity(select_in.task)
    ELSE ClassifyQuery(select_in.task)

\* C27: the route of an execute-task response is the route the classifier
\* chose for the task, in full mode and in lite mode; a task classified
\* 'oracle' is not reported as 'claude'.  (Stated for the requests that are
\* answered with status 200.)
C27_ReportedRouteIsClassifiedRoute ==
    (select_out.execute.done /\ select_out.execute.status = 200)
        => select_out.execute.route = ClassifiedRoute

\* C28: after query_claude has returned, with a result or with an error, the
\* caller's conversation_history list holds what it held when the call was
\* made.
C28_HistoryLeftUnchanged ==
    claude_call.done => conversation_history = claude_in.history

\* The messages of a are among those of b, in the same order.
RECURSIVE InOrderWithin(_, _)
InOrderWithin(a, b) ==
    IF a = <<>> THEN TRUE
    ELSE IF b = <<>> THEN FALSE
    ELSE IF Head(a) = Head(b) THEN InOrderWithin(Tail(a), Tail(b))
    ELSE InOrderWithin(a, Tail(b))

\* C29: in lite mode, a get_conversation_messages (with the default offset
\* and limit) returns every message that add_conversation_message has
\* acknowledged for the session since it was last deleted, in the order
\* added, also for a session id that was never created or was deleted.
C29_AcknowledgedMessagesAreReturned ==
    (/\ chat.last.op = "get"
     /\ chat.last.offset = 0
     /\ chat.last.limit = 50)
        => InOrderWithin(chat.acked[chat.last.session], chat.last.messages)

\* C30: when execute_tool_chain has returned for a chain of at least one
\* step, the chain's status is 'completed' or 'failed', current_step is None,
\* completed_at is set, no step is 'pending' or 'running', the chain is
\* 'completed' exactly when every step is, and after a failed step every
\* later step is 'skipped' and has no result.
C30_ChainEndsInTerminalState ==
    (chain_run.pc = "returned" /\ chain_run.steps # <<>>) =>
        LET chain == tool_chains["e1"]
            n == Len(chain.steps)
        IN  /\ chain.status \in {"completed", "failed"}
            /\ chain_run.response = chain.status
            /\ chain.current_step = "None"
            /\ chain.completed_at # "None"
            /\ n = Len(chain_run.steps)
            /\ \A i \in 1..n : chain.steps[i].status \notin {"pending", "running"}
            /\ chain.status = "completed" <=>
                   \A i \in 1..n : chain.steps[i].status = "completed"
            /\ \A i \in 1..n : chain.steps[i].status = "failed" =>
                   \A j \in (i + 1)..n :
                       /\ chain.steps[j].status = "skipped"
                       /\ chain.steps[j].result = "None"

\* The handler has returned for a chain of three steps whose second step
\* failed after the first had completed.
C30_Witness ==
    /\ chain_run.pc = "returned"
    /\ Len(chain_run.steps) = 3
    /\ tool_chains["e1"].status = "failed"
    /\ tool_chains["e1"].steps[1].status = "completed"
    /\ tool_chains["e1"].steps[2].status = "failed"
    /\ tool_chains["e1"].steps[3].status = "skipped"

=============================================================================
